---------------------------- MODULE Spec2Model ----------------------------
(***************************************************************************)
(* Prediction engine of the lottery explorer                               *)
(* (src/python-service/lottOracleV2.py): the orchestrator                  *)
(* EnhancedLottoOracle, its construction (_initialize_system) and          *)
(* generate_predictions with the subsystems it dispatches to.              *)
(*                                                                         *)
(* Numbers are the integers 1..90, a draw or candidate is a sequence of    *)
(* numbers, reals are kept as scaled integers (the scale is stated at each *)
(* definition).  Python's `random` generator is a state variable advanced  *)
(* by every draw the code makes from it.                                   *)
(***************************************************************************)
EXTENDS Integers, Sequences, FiniteSets, TLC

VARIABLES
    engines,      \* engine slot -> EnhancedLottoOracle instance or NoEngine
    rng,          \* state of the process-wide `random` generator
    hashseed,     \* hash seed (PYTHONHASHSEED) of the running process
    clock,        \* wall-clock date (datetime.now())
    calls,        \* engine slot -> number of requests made on the engine
    first,        \* engine slot -> record of the first request on the engine
    last          \* record of the operation that ran last

vars == <<engines, rng, hashseed, clock, calls, first, last>>

-----------------------------------------------------------------------------
(* Sequence helpers (Python list idioms)                                   *)

\* list(s): the list with every element computed
List(s) == s \o <<>>

\* a value computed once, before what follows reads it
Let(value, In(_)) == IF value = value THEN In(value) ELSE In(value)

Range(s) == {s[i] : i \in DOMAIN s}

Take(s, k) == SubSeq(s, 1, IF k < Len(s) THEN k ELSE Len(s))

\* sum(nums)
RECURSIVE SumRange(_, _, _)
SumRange(s, lo, hi) ==
    IF lo > hi THEN 0
    ELSE IF lo = hi THEN s[lo]
    ELSE SumRange(s, lo, (lo + hi) \div 2) + SumRange(s, ((lo + hi) \div 2) + 1, hi)

SumSeq(s) == SumRange(List(s), 1, Len(s))

\* the elements of a set of integers in ascending order
SetToSeq(S) ==
    LET hi    == IF S = {} THEN 0 ELSE CHOOSE x \in S : \A y \in S : y <= x
        below == List([x \in 1..hi |-> Cardinality({y \in S : y < x})])
    IN  List([p \in 1..Cardinality(S) |-> CHOOSE x \in S : below[x] = p - 1])

\* [x for x in s if x in keep]
FilterSeq(s, keep) ==
    LET idx == SetToSeq({i \in DOMAIN s : s[i] \in keep})
    IN  List([p \in 1..Len(idx) |-> s[idx[p]]])

\* list.index(x): position of the first occurrence
IndexOf(s, x) == CHOOSE i \in DOMAIN s : s[i] = x /\ \A j \in 1..(i - 1) : s[j] # x

\* lexicographic comparison of two integer tuples of equal length (Python
\* tuple comparison, used by the multi-key sorts)
RECURSIVE KeyGT(_, _)
KeyGT(a, b) ==
    IF a = <<>> THEN FALSE
    ELSE IF Head(a) # Head(b) THEN Head(a) > Head(b)
         ELSE KeyGT(Tail(a), Tail(b))

\* sorted(items, key=..., reverse=True): keys[i] is the key tuple of
\* items[i]; the sort is stable, equal keys keep their input order
SortDesc(items, keys) ==
    LET n == Len(items)
        key == List(keys)
        pos == List([i \in 1..n |->
                  Cardinality({j \in 1..n : \/ KeyGT(key[j], key[i])
                                            \/ (key[j] = key[i] /\ j < i)}) + 1])
    IN  List([p \in 1..n |-> items[CHOOSE i \in 1..n : pos[i] = p]])

\* sorted(nums) on a list of integers
Sorted(s) == SortDesc(s, [i \in DOMAIN s |-> <<0 - s[i]>>])

\* distinct elements of s in order of first occurrence (dict key order)
Distinct(s) ==
    LET firsts == {i \in DOMAIN s : \A j \in 1..(i - 1) : s[j] # s[i]}
        idx    == SetToSeq(firsts)
    IN  List([p \in 1..Len(idx) |-> s[idx[p]]])

Count(s, x) == Cardinality({i \in DOMAIN s : s[i] = x})

\* all_numbers = []; for draw in draws: all_numbers.extend(draw)
\* (every draw holds 5 numbers)
Flatten(draws) ==
    List([k \in 1..(5 * Len(draws)) |-> draws[((k - 1) \div 5) + 1][((k - 1) % 5) + 1]])

\* Counter(all_numbers).most_common(k): by count descending, equal counts in
\* order of first insertion
MostCommon(all_numbers, k) ==
    LET items == Distinct(all_numbers)
        keys  == [i \in DOMAIN items |-> <<Count(all_numbers, items[i])>>]
    IN  Take(SortDesc(items, keys), k)

Numbers == 1..90

IsCandidate(c) ==
    /\ Len(c) = 5
    /\ \A i \in 1..5 : c[i] \in Numbers
    /\ \A i, j \in 1..5 : i # j => c[i] # c[j]

-----------------------------------------------------------------------------
(* AntiPatternFilter                                                       *)

AntiPatternNames ==
    <<"all_evens", "all_odds", "all_high", "all_low", "all_same_decade",
      "consecutive_5", "sum_too_low", "sum_too_high", "all_multiples_5",
      "all_multiples_10">>

ANTI_PATTERNS(name, nums) ==
    CASE name = "all_evens"        -> \A i \in DOMAIN nums : nums[i] % 2 = 0
      [] name = "all_odds"         -> \A i \in DOMAIN nums : nums[i] % 2 = 1
      [] name = "all_high"         -> \A i \in DOMAIN nums : nums[i] > 45
      [] name = "all_low"          -> \A i \in DOMAIN nums : nums[i] <= 45
      [] name = "all_same_decade"  ->
            Cardinality({(nums[i] - 1) \div 10 : i \in DOMAIN nums}) = 1
      [] name = "consecutive_5"    ->
            LET lo == CHOOSE x \in Range(nums) : \A y \in Range(nums) : x <= y
            IN  Sorted(nums) = [i \in 1..5 |-> lo + i - 1]
      [] name = "sum_too_low"      -> SumSeq(nums) < 100
      [] name = "sum_too_high"     -> SumSeq(nums) > 350
      [] name = "all_multiples_5"  -> \A i \in DOMAIN nums : nums[i] % 5 = 0
      [] name = "all_multiples_10" -> \A i \in DOMAIN nums : nums[i] % 10 = 0

\* check_patterns(prediction)['violations'] as the set of violated rules
check_patterns(prediction) ==
    {AntiPatternNames[k] : k \in {k \in DOMAIN AntiPatternNames :
                                     ANTI_PATTERNS(AntiPatternNames[k], prediction)}}

max_iterations == 10

\* a round that would repair the parity rule and the high/low rule together
FixRoundAll(result, number_pool) ==
    LET violations == check_patterns(result)
        Swap(r, offending, ok) ==
            LET off == FilterSeq(r, offending)
                c   == FilterSeq(number_pool, ok \ Range(r))
            IN  IF off # <<>> /\ c # <<>>
                THEN [r EXCEPT ![IndexOf(r, off[1])] = c[(Len(c) \div 2) + 1]]
                ELSE r
        Parity(r) ==
            IF "all_evens" \in violations
              THEN Swap(r, {n \in Numbers : n % 2 = 0}, {n \in Numbers : n % 2 = 1})
            ELSE IF "all_odds" \in violations
              THEN Swap(r, {n \in Numbers : n % 2 = 1}, {n \in Numbers : n % 2 = 0})
            ELSE r
        Level(r) ==
            IF "all_high" \in violations
              THEN Swap(r, {n \in Numbers : n > 45}, {n \in Numbers : n <= 45})
            ELSE IF "all_low" \in violations
              THEN Swap(r, {n \in Numbers : n <= 45}, {n \in Numbers : n > 45})
            ELSE r
    IN  Level(Parity(result))

\* a round that would take the first eligible replacement for the parity and
\* high/low rules, and leave the sum rules alone
FixRoundFirst(result, number_pool) ==
    LET violations == check_patterns(result)
        Swap(offending, ok) ==
            LET off == FilterSeq(result, offending)
                c   == FilterSeq(number_pool, ok \ Range(result))
            IN  IF off # <<>> /\ c # <<>>
                THEN [result EXCEPT ![IndexOf(result, off[1])] = c[1]]
                ELSE result
    IN  IF "all_evens" \in violations
          THEN Swap({n \in Numbers : n % 2 = 0}, {n \in Numbers : n % 2 = 1})
        ELSE IF "all_odds" \in violations
          THEN Swap({n \in Numbers : n % 2 = 1}, {n \in Numbers : n % 2 = 0})
        ELSE IF "all_high" \in violations
          THEN Swap({n \in Numbers : n > 45}, {n \in Numbers : n <= 45})
        ELSE IF "all_low" \in violations
          THEN Swap({n \in Numbers : n <= 45}, {n \in Numbers : n > 45})
        ELSE result

\* a round that takes replacements from the whole pool, numbers of the
\* candidate included
FixRoundRepeating(result, number_pool) ==
    LET violations == check_patterns(result)
        Eligible(ok) == FilterSeq(number_pool, ok)
        Median(c)    == c[(Len(c) \div 2) + 1]
        Replace(offending, ok) ==
            LET off == FilterSeq(result, offending)
                c   == Eligible(ok)
            IN  IF off # <<>> /\ c # <<>>
                THEN [result EXCEPT ![IndexOf(result, off[1])] = Median(c)]
                ELSE result
    IN  IF "all_evens" \in violations
          THEN Replace({n \in Numbers : n % 2 = 0}, {n \in Numbers : n % 2 = 1})
        ELSE IF "all_odds" \in violations
          THEN Replace({n \in Numbers : n % 2 = 1}, {n \in Numbers : n % 2 = 0})
        ELSE IF "all_high" \in violations
          THEN Replace({n \in Numbers : n > 45}, {n \in Numbers : n <= 45})
        ELSE IF "all_low" \in violations
          THEN Replace({n \in Numbers : n <= 45}, {n \in Numbers : n > 45})
        ELSE IF "sum_too_low" \in violations
          THEN LET s == Sorted(result)
                   c == Eligible({n \in Numbers : n > 60})
               IN  IF c # <<>> THEN [s EXCEPT ![1] = c[1]] ELSE s
        ELSE IF "sum_too_high" \in violations
          THEN LET s == Sorted(result)
                   c == Eligible({n \in Numbers : n < 30})
               IN  IF c # <<>> THEN [s EXCEPT ![Len(s)] = c[Len(c)]] ELSE s
        ELSE result

\* one round of the repair loop on an invalid result
FixRound(result, number_pool) ==
    LET violations == check_patterns(result)
        Eligible(ok) == FilterSeq(number_pool, ok \ Range(result))
        Median(c)    == c[(Len(c) \div 2) + 1]
        Replace(offending, ok) ==
            LET off == FilterSeq(result, offending)
                c   == Eligible(ok)
            IN  IF off # <<>> /\ c # <<>>
                THEN [result EXCEPT ![IndexOf(result, off[1])] = Median(c)]
                ELSE result
    IN  IF "all_evens" \in violations
          THEN Replace({n \in Numbers : n % 2 = 0}, {n \in Numbers : n % 2 = 1})
        ELSE IF "all_odds" \in violations
          THEN Replace({n \in Numbers : n % 2 = 1}, {n \in Numbers : n % 2 = 0})
        ELSE IF "all_high" \in violations
          THEN Replace({n \in Numbers : n > 45}, {n \in Numbers : n <= 45})
        ELSE IF "all_low" \in violations
          THEN Replace({n \in Numbers : n <= 45}, {n \in Numbers : n > 45})
        ELSE IF "sum_too_low" \in violations
          THEN LET s == Sorted(result)
                   c == Eligible({n \in Numbers : n > 60})
               IN  IF c # <<>> THEN [s EXCEPT ![1] = c[1]] ELSE s
        ELSE IF "sum_too_high" \in violations
          THEN LET s == Sorted(result)
                   c == Eligible({n \in Numbers : n < 30})
               IN  IF c # <<>> THEN [s EXCEPT ![Len(s)] = c[Len(c)]] ELSE s
        ELSE result

\* the loop of fix_prediction: [result, rounds] after at most `left` more
\* rounds; rounds counts the rounds that found the result invalid
RECURSIVE FixLoop(_, _, _, _)
FixLoop(result, number_pool, left, rounds) ==
    IF left = 0 \/ check_patterns(result) = {}
    THEN [result |-> result, rounds |-> rounds]
    ELSE FixLoop(FixRound(result, number_pool), number_pool, left - 1, rounds + 1)

fix_prediction_run(prediction, number_pool) ==
    FixLoop(prediction, number_pool, max_iterations, 0)

fix_prediction(prediction, number_pool) ==
    Sorted(fix_prediction_run(prediction, number_pool).result)

-----------------------------------------------------------------------------
(* Python's `random` generator, the md5-derived seed and the string hash   *)

\* the generator is a linear congruential stream over 0..RngMod-1; each
\* random(), choices(), sample() or randint() advances it once per value
RngMod == 65537

RngNext(s) == (75 * s + 74) % RngMod

\* random.seed(seed)
RngSeed(seed) == seed % RngMod

\* the value in 0..n-1 that a generator in state s yields (n < 32768)
RngBelow(s, n) == (s * n) \div RngMod

StrategyCode(strategy) ==
    CASE strategy = "ml" -> 1 [] strategy = "genetic" -> 2
      [] strategy = "pattern" -> 3 [] strategy = "intelligence" -> 4
      [] strategy = "yearly" -> 5 [] strategy = "ensemble" -> 6
      [] strategy = "all" -> 7

\* str(sorted([tuple(sorted(d)) for d in self.historical])): every draw
\* sorted, then the draws sorted as tuples
DataStr(historical) ==
    LET tuples == [i \in DOMAIN historical |-> Sorted(historical[i])]
        keys   == [i \in DOMAIN tuples |-> [k \in DOMAIN tuples[i] |-> 0 - tuples[i][k]]]
    IN  SortDesc(tuples, keys)

\* int(hashlib.md5((data_str + strategy).encode()).hexdigest()[:8], 16) % 2**31
\* md5 is a polynomial digest of the characters of data_str followed by the
\* strategy name
\* the digest of chars[lo..hi] and 31^(hi - lo + 1), both modulo 32749
RECURSIVE DigestRange(_, _, _)
DigestRange(chars, lo, hi) ==
    IF lo > hi THEN <<0, 1>>
    ELSE IF lo = hi THEN <<chars[lo] % 32749, 31>>
    ELSE Let(DigestRange(chars, lo, (lo + hi) \div 2), LAMBDA left :
         Let(DigestRange(chars, ((lo + hi) \div 2) + 1, hi), LAMBDA right :
             <<(left[1] * right[2] + right[1]) % 32749, (left[2] * right[2]) % 32749>>))

Digest(acc, chars) ==
    Let(DigestRange(List(chars), 1, Len(chars)), LAMBDA d : (acc * d[2] + d[1]) % 32749)

DeriveSeed(historical, strategy) ==
    Digest(Digest(7, Flatten(DataStr(historical))), <<StrategyCode(strategy)>>)

-----------------------------------------------------------------------------
(* EnhancedLottoOracle._analyze_patterns                                   *)

\* int(np.percentile(sums, q)) for q = 25 * quarters, linear interpolation
\* between the two closest ranks
PercentileInt(sums, quarters) ==
    LET s  == Sorted(sums)
        n  == Len(s)
        lo == (quarters * (n - 1)) \div 4
        r  == (quarters * (n - 1)) % 4
    IN  IF r = 0 THEN s[lo + 1]
        ELSE s[lo + 1] + (r * (s[lo + 2] - s[lo + 1])) \div 4

\* skips[num]: draws since num last appeared, 0 when it never appears
SkipOf(recent_draws, num) ==
    LET hits == {i \in DOMAIN recent_draws : num \in Range(recent_draws[i])}
    IN  IF hits = {} THEN 0
        ELSE Len(recent_draws) - (CHOOSE i \in hits : \A j \in hits : j <= i)

\* the summary for no draws is the empty dict: every read of it goes through
\* patterns.get(key, default), the defaults are stored in the record
EmptyPatterns ==
    [empty |-> TRUE, sum_range |-> <<0, 1000>>, even_mode |-> 0, high_mode |-> 0,
     hot_numbers |-> <<>>, cold_numbers |-> <<>>, skips |-> List([n \in 1..90 |-> 0])]

\* sum_mean and sum_std are computed by the code and read by no consumer
_analyze_patterns(recent_draws) ==
    IF recent_draws = <<>> THEN EmptyPatterns
    ELSE
    LET sums  == [i \in DOMAIN recent_draws |-> SumSeq(recent_draws[i])]
        evens == [i \in DOMAIN recent_draws |->
                    Cardinality({k \in 1..5 : recent_draws[i][k] % 2 = 0})]
        highs == [i \in DOMAIN recent_draws |->
                    Cardinality({k \in 1..5 : recent_draws[i][k] > 45})]
        n     == Len(recent_draws)
        last20 == SubSeq(recent_draws, IF n > 20 THEN n - 19 ELSE 1, n)
        skips == List([num \in 1..90 |-> SkipOf(recent_draws, num)])
        nums  == [i \in 1..90 |-> i]
    IN  [empty |-> FALSE,
         sum_range |-> <<PercentileInt(sums, 1), PercentileInt(sums, 3)>>,
         even_mode |-> MostCommon(evens, 1)[1],
         high_mode |-> MostCommon(highs, 1)[1],
         hot_numbers |-> MostCommon(Flatten(last20), 15),
         cold_numbers |-> Take(SortDesc(nums, [i \in 1..90 |-> <<skips[i]>>]), 15),
         skips |-> skips]

\* np.mean(skips.values()) as the pair <<sum, count>>; 10 for the empty dict
AvgSkip(patterns) ==
    IF patterns.empty THEN <<10, 1>>
    ELSE <<SumSeq([i \in 1..90 |-> patterns.skips[i]]), 90>>

\* 0.8 * avg_skip <= skip <= 1.2 * avg_skip
IsDue(patterns, num) ==
    LET avg == AvgSkip(patterns)
        k   == patterns.skips[num]
    IN  8 * avg[1] <= 10 * k * avg[2] /\ 10 * k * avg[2] <= 12 * avg[1]

-----------------------------------------------------------------------------
(* MLPredictor                                                             *)

lookback == 50

\* a feature builder that would always return samples
AlwaysTrainingSamples(historical_draws) == TRUE

\* create_features returns no samples below lookback + 10 draws
HasTrainingSamples(historical_draws) == Len(historical_draws) >= lookback + 10

\* train(historical_draws) on a predictor whose flag is is_trained: no
\* samples, return False; otherwise both models are fitted, and a fit that
\* raises leaves train by the exception, before the flag is set.
\* [raised, returned, is_trained]
train(is_trained, historical_draws, fit_raises) ==
    IF ~HasTrainingSamples(historical_draws)
    THEN [raised |-> FALSE, returned |-> FALSE, is_trained |-> is_trained]
    ELSE IF fit_raises
    THEN [raised |-> TRUE, returned |-> FALSE, is_trained |-> is_trained]
    ELSE [raised |-> FALSE, returned |-> TRUE, is_trained |-> TRUE]

\* predict_proba of the fitted forest and boosting models.  The fitted trees
\* are a fixed function of the training draws (random_state=42); they are
\* represented by the recent frequency of the number, which is the first
\* feature they are given.  The value is the weight before normalisation.
ClassifierProba(historical_draws, num) ==
    LET n      == Len(historical_draws)
        recent == SubSeq(historical_draws, IF n >= 50 THEN n - 49 ELSE 1, n)
    IN  1 + Cardinality({i \in DOMAIN recent : num \in Range(recent[i])})

\* a predictor that would consult its models without looking at the flag
ModelsProba(is_trained, historical_draws) ==
    List([num \in 1..90 |-> ClassifierProba(historical_draws, num)])

\* predict_proba: uniform 1/90 when untrained (every weight equal)
predict_proba(is_trained, historical_draws) ==
    IF ~is_trained THEN List([num \in 1..90 |-> 1])
    ELSE List([num \in 1..90 |-> ClassifierProba(historical_draws, num)])

\* sorted(probs.items(), key=lambda x: (x[1], -x[0]), reverse=True), then the
\* top 3, two more from ranks 4..15, and a fill from the whole ranking
_ml_based_prediction(is_trained, historical) ==
    LET probs == predict_proba(is_trained, historical)
        nums  == [i \in 1..90 |-> i]
        sorted_nums == SortDesc(nums, [i \in 1..90 |-> <<probs[i], 0 - i>>])
        top3  == Take(sorted_nums, 3)
        next  == FilterSeq(SubSeq(sorted_nums, 4, 15), Numbers \ Range(top3))
        sel   == top3 \o Take(next, 2)
        fill  == FilterSeq(sorted_nums, Numbers \ Range(sel))
    IN  Sorted(sel \o Take(fill, 5 - Len(sel)))

-----------------------------------------------------------------------------
(* EnhancedLottoOracle._pattern_based_prediction                           *)

_score_pattern_candidate(candidate, patterns) ==
    LET hot10 == Range(Take(patterns.hot_numbers, 10))
        cold5 == Range(Take(patterns.cold_numbers, 5))
        hot_bonus  == Cardinality({i \in DOMAIN candidate : candidate[i] \in hot10})
        cold_bonus == Cardinality({i \in DOMAIN candidate :
                          candidate[i] \in cold5 /\ patterns.skips[candidate[i]] > 20})
        total == SumSeq(candidate)
        evens == Cardinality({i \in DOMAIN candidate : candidate[i] % 2 = 0})
        highs == Cardinality({i \in DOMAIN candidate : candidate[i] > 45})
        sorted_cand == Sorted(candidate)
        consecutive_penalty ==
            Cardinality({i \in 1..(Len(sorted_cand) - 1) :
                            sorted_cand[i + 1] - sorted_cand[i] = 1})
    IN    (IF patterns.hot_numbers # <<>> THEN hot_bonus * 2 ELSE 0)
        + (IF patterns.cold_numbers # <<>> /\ ~patterns.empty THEN cold_bonus * 3 ELSE 0)
        + (IF patterns.sum_range[1] <= total /\ total <= patterns.sum_range[2]
           THEN 5 ELSE 0)
        + (IF evens \in {2, 3} THEN 3 ELSE 0)
        + (IF highs \in {2, 3} THEN 3 ELSE 0)
        - (IF Len(sorted_cand) >= 2 THEN consecutive_penalty * 2 ELSE 0)

\* list(set(hot_pool + cold_pool + due_pool)): the iteration order of a set
\* of small integers is a fixed function of its elements (hash(n) = n); it
\* is taken as ascending
ScoreSorted(candidates, patterns) ==
    SortDesc(candidates,
             [i \in DOMAIN candidates |->
                 <<_score_pattern_candidate(<<candidates[i]>>, patterns)>>])

\* the pool, filled up to 15 with the best of the first 20 other numbers
CandidatePool(pool0, patterns) ==
    IF Len(pool0) < 15
    THEN pool0 \o Take(ScoreSorted(Take(SetToSeq(Numbers \ Range(pool0)), 20), patterns),
                       15 - Len(pool0))
    ELSE pool0

\* the selection, filled up to five with the best of the numbers left
SelectFive(selected, patterns) ==
    IF Len(selected) < 5
    THEN Sorted(selected \o Take(ScoreSorted(SetToSeq(Numbers \ Range(selected)), patterns),
                                 5 - Len(selected)))
    ELSE Sorted(selected)

_pattern_based_prediction(patterns) ==
    LET hot_pool  == Take(patterns.hot_numbers, 10)
        cold_pool == Take(FilterSeq(patterns.cold_numbers,
                                    {n \in Numbers : patterns.skips[n] > 15}), 10)
        due_pool  == Take(SetToSeq({n \in Numbers : IsDue(patterns, n)}), 10)
    IN  SelectFive(
            Take(ScoreSorted(
                     CandidatePool(SetToSeq(Range(hot_pool) \cup Range(cold_pool)
                                               \cup Range(due_pool)), patterns),
                     patterns), 5),
            patterns)

-----------------------------------------------------------------------------
(* TrendAnalyzer                                                           *)

\* The momentum c5/5 - c20/20 and the acceleration
\* (c5/5 - c10/10) - (c10/10 - c20/20) are IEEE doubles in the code; the
\* tables give the rank of the double among all values the counts c5 (of the
\* last 5 draws), c10 and c20 can produce, indexed [c5 + 1][c20 + 1] and
\* [c5 + 1][c10 + 1][c20 + 1].  MomentumRising, MomentumFalling and
\* AccelThreshold are the ranks of 0.05, -0.05 and 0.02.
MomentumRank ==
    <<<<38, 35, 32, 29, 26, 24, 22, 20, 17, 15, 13, 11, 10, 7, 6, 5, 4, 3, 2, 1, 0>>,
      <<50, 48, 44, 41, 38, 36, 33, 30, 26, 24, 22, 19, 18, 15, 14, 11, 9, 8, 6, 5, 4>>,
      <<58, 56, 54, 52, 50, 48, 45, 42, 38, 36, 33, 28, 27, 24, 23, 20, 17, 16, 13, 12, 10>>,
      <<64, 62, 61, 59, 57, 55, 53, 52, 49, 47, 43, 39, 38, 34, 33, 28, 25, 24, 21, 20, 17>>,
      <<70, 69, 68, 66, 65, 63, 61, 60, 58, 56, 54, 52, 51, 48, 46, 42, 38, 37, 33, 31, 27>>,
      <<74, 73, 72, 71, 70, 69, 67, 66, 64, 63, 61, 59, 58, 55, 54, 52, 49, 48, 43, 42, 38>>>>

MomentumRising == 40

MomentumFalling == 35

AccelRank ==
    <<<<<<122, 128, 135, 140, 145, 152, 156, 162, 167, 172, 176, 179, 180, 183, 185, 189, 192, 194, 197, 199, 202>>,
        <<96, 102, 108, 115, 122, 127, 134, 139, 146, 151, 157, 164, 167, 173, 176, 179, 181, 183, 186, 189, 192>>,
        <<75, 80, 85, 91, 96, 102, 107, 114, 122, 127, 134, 141, 144, 152, 155, 163, 168, 170, 175, 179, 181>>,
        <<58, 61, 65, 71, 76, 81, 86, 91, 97, 103, 109, 118, 122, 129, 134, 141, 145, 153, 158, 161, 166>>,
        <<45, 49, 52, 55, 57, 61, 65, 69, 75, 80, 85, 91, 95, 102, 106, 114, 122, 126, 134, 138, 144>>,
        <<32, 36, 39, 42, 45, 49, 53, 55, 58, 61, 65, 71, 75, 81, 85, 91, 97, 102, 109, 114, 122>>,
        <<24, 26, 27, 31, 32, 36, 40, 42, 46, 49, 53, 56, 58, 62, 65, 71, 77, 81, 87, 91, 97>>,
        <<16, 18, 21, 22, 24, 26, 28, 31, 33, 36, 40, 43, 46, 50, 53, 56, 59, 62, 67, 71, 77>>,
        <<9, 10, 12, 13, 15, 17, 20, 22, 23, 25, 27, 30, 32, 35, 38, 41, 45, 48, 52, 54, 57>>,
        <<4, 5, 6, 8, 9, 10, 12, 13, 16, 17, 20, 22, 23, 26, 27, 30, 32, 35, 39, 41, 45>>,
        <<0, 1, 2, 3, 4, 5, 7, 8, 9, 10, 12, 14, 16, 17, 20, 22, 24, 26, 27, 30, 32>>>>,
      <<<<145, 152, 157, 162, 167, 172, 176, 179, 181, 183, 185, 189, 192, 195, 196, 199, 202, 204, 206, 207, 209>>,
        <<122, 128, 135, 140, 145, 152, 156, 162, 167, 171, 176, 179, 180, 183, 185, 189, 192, 194, 197, 199, 202>>,
        <<96, 102, 108, 115, 122, 127, 134, 139, 145, 152, 156, 163, 166, 172, 175, 179, 181, 182, 185, 189, 192>>,
        <<76, 81, 87, 92, 97, 103, 109, 116, 123, 129, 136, 142, 145, 153, 156, 163, 167, 173, 177, 178, 180>>,
        <<57, 61, 65, 70, 75, 80, 85, 90, 96, 102, 107, 116, 121, 127, 133, 139, 145, 150, 156, 161, 166>>,
        <<45, 49, 53, 56, 58, 61, 65, 70, 76, 81, 86, 93, 96, 103, 107, 116, 123, 127, 136, 139, 145>>,
        <<32, 36, 40, 43, 46, 49, 53, 56, 59, 62, 66, 72, 76, 82, 86, 93, 98, 103, 111, 116, 123>>,
        <<24, 26, 28, 31, 33, 36, 40, 43, 47, 50, 53, 56, 59, 63, 66, 72, 78, 82, 88, 93, 98>>,
        <<15, 17, 19, 22, 23, 25, 27, 29, 32, 34, 38, 41, 44, 48, 51, 54, 57, 60, 64, 68, 74>>,
        <<9, 11, 12, 14, 16, 17, 20, 22, 24, 26, 27, 31, 32, 36, 39, 42, 46, 49, 53, 55, 58>>,
        <<4, 5, 6, 8, 9, 10, 12, 13, 16, 17, 20, 22, 23, 26, 27, 30, 32, 35, 39, 41, 45>>>>,
      <<<<167, 172, 176, 179, 181, 183, 185, 189, 192, 195, 197, 200, 202, 204, 206, 207, 210, 211, 213, 215, 216>>,
        <<146, 153, 157, 163, 167, 173, 176, 179, 181, 183, 186, 190, 192, 195, 197, 200, 202, 204, 206, 207, 210>>,
        <<122, 127, 135, 140, 145, 152, 156, 162, 167, 172, 176, 179, 180, 183, 185, 189, 192, 193, 196, 199, 202>>,
        <<97, 103, 110, 117, 123, 129, 136, 141, 147, 153, 157, 164, 167, 173, 176, 179, 181, 184, 187, 189, 192>>,
        <<75, 80, 85, 91, 96, 102, 107, 114, 122, 127, 134, 141, 144, 152, 155, 162, 167, 171, 176, 178, 180>>,
        <<58, 61, 65, 71, 76, 81, 86, 91, 97, 103, 109, 118, 122, 129, 134, 141, 147, 152, 157, 162, 167>>,
        <<46, 50, 53, 56, 59, 62, 66, 71, 77, 82, 87, 94, 97, 104, 109, 118, 124, 129, 137, 141, 147>>,
        <<33, 37, 40, 43, 47, 50, 53, 56, 59, 63, 67, 73, 77, 83, 87, 94, 99, 104, 112, 118, 124>>,
        <<23, 26, 27, 30, 32, 35, 39, 41, 45, 49, 52, 55, 57, 61, 64, 69, 75, 79, 85, 89, 95>>,
        <<16, 17, 20, 22, 24, 26, 27, 30, 32, 36, 39, 42, 45, 49, 52, 55, 58, 61, 65, 69, 75>>,
        <<9, 11, 12, 14, 16, 17, 21, 22, 24, 26, 27, 31, 32, 36, 39, 42, 46, 49, 53, 55, 58>>>>,
      <<<<180, 183, 185, 189, 192, 194, 196, 199, 202, 204, 206, 207, 209, 211, 212, 215, 216, 218, 220, 221, 223>>,
        <<167, 172, 176, 179, 180, 183, 185, 189, 192, 194, 197, 200, 202, 204, 206, 207, 210, 211, 213, 215, 216>>,
        <<144, 150, 155, 162, 166, 171, 175, 178, 180, 182, 185, 189, 191, 194, 196, 199, 202, 203, 205, 207, 209>>,
        <<122, 127, 135, 140, 145, 152, 156, 162, 167, 172, 176, 179, 180, 183, 185, 189, 192, 195, 198, 199, 202>>,
        <<95, 101, 106, 114, 121, 126, 133, 138, 144, 150, 155, 162, 165, 171, 174, 178, 180, 182, 185, 188, 191>>,
        <<75, 80, 85, 91, 96, 102, 107, 114, 122, 127, 134, 141, 144, 152, 155, 162, 167, 171, 176, 178, 180>>,
        <<58, 62, 65, 71, 76, 81, 86, 91, 97, 103, 109, 118, 122, 129, 134, 141, 147, 152, 157, 162, 167>>,
        <<46, 50, 53, 56, 59, 62, 66, 71, 77, 82, 87, 94, 97, 104, 109, 118, 124, 129, 137, 141, 147>>,
        <<32, 35, 38, 41, 44, 48, 52, 54, 57, 61, 64, 69, 74, 79, 84, 89, 95, 100, 106, 113, 120>>,
        <<23, 26, 27, 30, 32, 35, 38, 41, 45, 49, 52, 55, 57, 61, 64, 69, 75, 79, 85, 89, 95>>,
        <<16, 17, 20, 22, 23, 26, 27, 30, 32, 35, 39, 42, 45, 49, 52, 55, 58, 61, 65, 69, 75>>>>,
      <<<<192, 195, 197, 200, 202, 204, 206, 207, 210, 211, 213, 215, 216, 219, 220, 222, 223, 224, 226, 227, 228>>,
        <<181, 183, 186, 189, 192, 195, 197, 200, 202, 204, 206, 208, 210, 211, 213, 215, 217, 219, 220, 222, 223>>,
        <<168, 173, 177, 179, 181, 184, 186, 189, 192, 195, 198, 201, 202, 204, 206, 208, 210, 211, 213, 215, 217>>,
        <<145, 152, 157, 162, 167, 172, 176, 179, 181, 183, 185, 189, 192, 195, 196, 199, 202, 204, 206, 207, 209>>,
        <<122, 127, 134, 141, 145, 152, 156, 162, 167, 172, 176, 179, 180, 183, 185, 189, 192, 194, 197, 199, 202>>,
        <<97, 103, 109, 118, 123, 129, 136, 141, 147, 153, 157, 164, 167, 173, 176, 179, 181, 183, 186, 189, 192>>,
        <<77, 83, 87, 94, 98, 104, 111, 118, 124, 130, 137, 143, 147, 154, 157, 164, 169, 173, 177, 179, 181>>,
        <<59, 63, 67, 73, 78, 83, 88, 94, 99, 105, 112, 119, 124, 131, 137, 143, 148, 154, 159, 164, 169>>,
        <<45, 49, 52, 55, 57, 61, 65, 69, 75, 80, 85, 91, 95, 102, 106, 114, 122, 126, 134, 138, 144>>,
        <<32, 36, 39, 42, 46, 49, 52, 55, 58, 61, 65, 71, 75, 81, 85, 91, 97, 102, 109, 114, 122>>,
        <<24, 26, 27, 31, 32, 36, 40, 42, 46, 49, 53, 56, 58, 62, 65, 71, 77, 81, 87, 91, 97>>>>,
      <<<<202, 204, 206, 207, 209, 211, 213, 215, 216, 218, 220, 222, 223, 224, 225, 227, 228, 229, 230, 231, 232>>,
        <<192, 194, 197, 199, 202, 204, 206, 207, 210, 211, 213, 215, 216, 219, 220, 222, 223, 224, 226, 227, 228>>,
        <<181, 183, 186, 189, 192, 195, 197, 199, 202, 204, 206, 208, 209, 211, 213, 215, 217, 218, 220, 222, 223>>,
        <<166, 171, 176, 178, 180, 182, 185, 189, 192, 194, 196, 199, 202, 204, 205, 207, 209, 211, 213, 214, 216>>,
        <<144, 150, 155, 162, 166, 171, 175, 178, 180, 182, 185, 189, 191, 194, 196, 199, 202, 203, 206, 207, 209>>,
        <<122, 127, 134, 141, 145, 152, 156, 162, 167, 172, 176, 179, 180, 183, 185, 189, 192, 194, 197, 199, 202>>,
        <<97, 104, 109, 118, 123, 129, 136, 141, 147, 153, 157, 164, 167, 173, 176, 179, 181, 183, 186, 189, 192>>,
        <<77, 83, 87, 94, 98, 104, 111, 118, 124, 130, 137, 143, 147, 154, 157, 164, 169, 173, 177, 179, 181>>,
        <<57, 61, 64, 69, 74, 79, 85, 89, 95, 101, 106, 114, 120, 126, 132, 138, 144, 149, 155, 160, 165>>,
        <<45, 49, 52, 55, 58, 61, 64, 69, 75, 80, 85, 91, 95, 102, 106, 114, 122, 126, 134, 138, 144>>,
        <<32, 36, 39, 42, 45, 49, 53, 55, 58, 61, 65, 71, 75, 81, 85, 91, 97, 102, 109, 114, 122>>>>>>

AccelThreshold == 125

\* number of the last `window` draws that hold num
WindowCount(draws, num, window) ==
    Cardinality({i \in (Len(draws) - window + 1)..Len(draws) : num \in Range(draws[i])})

\* calculate_momentum: the ranks of momentum and acceleration; neutral with
\* acceleration 0 below 20 draws
calculate_momentum(draws, num) ==
    IF Len(draws) < 20
    THEN [momentum |-> MomentumRank[1][1], acceleration |-> AccelRank[1][1][1]]
    ELSE LET c5  == WindowCount(draws, num, 5)
             c10 == WindowCount(draws, num, 10)
             c20 == WindowCount(draws, num, 20)
         IN  [momentum |-> MomentumRank[c5 + 1][c20 + 1],
              acceleration |-> AccelRank[c5 + 1][c10 + 1][c20 + 1]]

top_n == 15

\* get_trending_numbers; `empty` marks the {} stored when the analysis fails
Trending(momentums) ==
    LET up   == SetToSeq({n \in Numbers : momentums[n].momentum > MomentumRising})
        down == SetToSeq({n \in Numbers : momentums[n].momentum < MomentumFalling})
        acc  == SetToSeq({n \in Numbers : momentums[n].acceleration > AccelThreshold})
    IN  [empty |-> FALSE,
         rising |-> Take(SortDesc(up, [i \in DOMAIN up |-> <<momentums[up[i]].momentum>>]), top_n),
         falling |-> Take(SortDesc(down, [i \in DOMAIN down |->
                                            <<0 - momentums[down[i]].momentum>>]), top_n),
         accelerating |-> Take(SortDesc(acc, [i \in DOMAIN acc |->
                                            <<momentums[acc[i]].acceleration>>]), top_n)]

get_trending_numbers(draws) ==
    Trending(List([num \in 1..90 |-> calculate_momentum(draws, num)]))

EmptyTrend == [empty |-> TRUE, rising |-> <<>>, falling |-> <<>>, accelerating |-> <<>>]

-----------------------------------------------------------------------------
(* GeneticOptimizer                                                        *)

\* population_size and generations of GeneticOptimizer() are 150 and 75;
\* the model runs the same loops over a smaller population
pop_size == 3

generations == 1

\* the reject-and-regenerate loop of _generate_individual is followed for at
\* most MaxAttempts candidates
MaxAttempts == 60

\* running sums of a weight list, for random.choices
CumWeights(weights) ==
    LET w == List(weights)
    IN  List([i \in DOMAIN w |-> SumRange(w, 1, i)])

\* one value of random.choices(items, weights): the generator state s1 that
\* produced the value selects the first item whose running weight exceeds it
WeightedPick(items, cum, s1) ==
    LET target == RngBelow(s1, cum[Len(cum)])
    IN  items[CHOOSE i \in DOMAIN cum :
                 cum[i] > target /\ (i = 1 \/ cum[i - 1] <= target)]

\* random.choices(items, weights, k): k values, one generator step each
RECURSIVE Choices(_, _, _, _, _)
Choices(items, cum, k, s, acc) ==
    IF k = 0 THEN [v |-> acc, s |-> s]
    ELSE Choices(items, cum, k - 1, RngNext(s),
                 Append(acc, WeightedPick(items, cum, RngNext(s))))

\* random.sample(items, k): k distinct values, one generator step each
RECURSIVE Sample(_, _, _, _)
Sample(items, k, s, acc) ==
    IF k = 0 THEN [v |-> acc, s |-> s]
    ELSE LET s1 == RngNext(s)
             i  == RngBelow(s1, Len(items)) + 1
         IN  Sample(SubSeq(items, 1, i - 1) \o SubSeq(items, i + 1, Len(items)),
                    k - 1, s1, Append(acc, items[i]))

\* a check that would look at the 5 distinct numbers only
DistinctOnly(individual, constraints) == Cardinality(Range(individual)) = 5

\* _satisfies_constraints: 5 distinct numbers with the sum in the range
_satisfies_constraints(individual, constraints) ==
    /\ Cardinality(Range(individual)) = 5
    /\ constraints.target_sum_range[1] <= SumSeq(individual)
    /\ SumSeq(individual) <= constraints.target_sum_range[2]

\* _generate_individual: [v, s, ok]; ok is FALSE when MaxAttempts candidates
\* were rejected (the loop of the code goes on)
RECURSIVE GenerateLoop(_, _, _, _, _)
GenerateLoop(numbers, cum, constraints, s, left) ==
    IF left = 0 THEN [v |-> <<>>, s |-> s, ok |-> FALSE]
    ELSE LET drawn == Choices(numbers, cum, 5, s, <<>>)
             uniq  == SetToSeq(Range(drawn.v))
             fill  == IF Len(uniq) < 5
                      THEN Sample(SetToSeq(Range(numbers) \ Range(uniq)),
                                  5 - Len(uniq), drawn.s, <<>>)
                      ELSE [v |-> <<>>, s |-> drawn.s]
             individual == uniq \o fill.v
         IN  IF _satisfies_constraints(individual, constraints)
             THEN [v |-> Sorted(individual), s |-> fill.s, ok |-> TRUE]
             ELSE GenerateLoop(numbers, cum, constraints, fill.s, left - 1)

_generate_individual(probs, constraints, s) ==
    GenerateLoop([i \in 1..90 |-> i], CumWeights([i \in 1..90 |-> probs[i]]),
                 constraints, s, MaxAttempts)

\* _constraint_score in thousandths: 1.2 or 0.8 for the sum, 1.1 for each
\* of the two balance targets met
_constraint_score(individual, constraints) ==
    LET total == SumSeq(individual)
        evens == Cardinality({i \in DOMAIN individual : individual[i] % 2 = 0})
        highs == Cardinality({i \in DOMAIN individual : individual[i] > 45})
    IN  (IF constraints.target_sum_range[1] <= total
            /\ total <= constraints.target_sum_range[2] THEN 12 ELSE 8)
        * (IF evens \in constraints.even_odd_target THEN 11 ELSE 10)
        * (IF highs \in constraints.high_low_target THEN 11 ELSE 10)

\* _fitness scaled by 1000 * sum(probs): prob_score * constraint_score minus
\* 0.1 per consecutive pair
_fitness(individual, probs, constraints) ==
    LET sorted_ind == Sorted(individual)
        total == SumSeq([i \in 1..90 |-> probs[i]])
        consecutive == Cardinality({i \in 1..4 : sorted_ind[i + 1] - sorted_ind[i] = 1})
    IN  IF Len(sorted_ind) < 5 THEN 0
        ELSE SumSeq([i \in DOMAIN individual |-> probs[individual[i]]])
                * _constraint_score(individual, constraints)
             - 100 * consecutive * total

\* a single point crossover that joins the head of one parent to the tail
\* of the other
CrossoverTails(parent1, parent2, s) ==
    LET s1    == RngNext(s)
        point == 1 + RngBelow(s1, 4)
    IN  [c1 |-> Sorted(SubSeq(parent1, 1, point) \o SubSeq(parent2, point + 1, 5)),
         c2 |-> Sorted(SubSeq(parent2, 1, point) \o SubSeq(parent1, point + 1, 5)),
         s |-> s1]

\* _crossover: [c1, c2, s]; list(set(child))[:5] keeps the first five of the
\* set in iteration order, and a short child is filled by random.sample
_crossover(parent1, parent2, s) ==
    LET s1    == RngNext(s)
        point == 1 + RngBelow(s1, 4)
        Child(a, b) == Take(SetToSeq(Range(SubSeq(a, 1, point)) \cup Range(b)), 5)
        Fill(child, st) == IF Len(child) < 5
                           THEN Sample(SetToSeq(Numbers \ Range(child)),
                                       5 - Len(child), st, <<>>)
                           ELSE [v |-> <<>>, s |-> st]
        child1 == Child(parent1, parent2)
        child2 == Child(parent2, parent1)
        fill1  == Fill(child1, s1)
        fill2  == Fill(child2, fill1.s)
    IN  [c1 |-> Sorted(child1 \o fill1.v),
         c2 |-> Sorted(child2 \o fill2.v), s |-> fill2.s]

\* _mutate: [v, s]
_mutate(individual, probs, s) ==
    LET s1 == RngNext(s)
        mutation_type == <<"swap", "replace", "shift">>[RngBelow(s1, 3) + 1]
    IN  IF mutation_type = "swap"
        THEN LET ij == Sample(<<1, 2, 3, 4, 5>>, 2, s1, <<>>)
             IN  [v |-> Sorted([individual EXCEPT ![ij.v[1]] = individual[ij.v[2]],
                                                  ![ij.v[2]] = individual[ij.v[1]]]),
                  s |-> ij.s]
        ELSE IF mutation_type = "replace"
        THEN LET s2  == RngNext(s1)
                 idx == RngBelow(s2, 5) + 1
                 candidates == SetToSeq(Numbers \ Range(individual))
                 cum == CumWeights([i \in DOMAIN candidates |-> probs[candidates[i]]])
                 s3  == RngNext(s2)
             IN  IF cum[Len(cum)] > 0
                 THEN [v |-> Sorted([individual EXCEPT
                                        ![idx] = WeightedPick(candidates, cum, s3)]),
                       s |-> s3]
                 ELSE [v |-> Sorted(individual), s |-> s2]
        ELSE LET s2    == RngNext(s1)
                 shift == RngBelow(s2, 11) - 5
                 moved == SetToSeq({((individual[i] + shift - 1 + 90) % 90) + 1 :
                                       i \in DOMAIN individual})
                 fill  == IF Len(moved) < 5
                          THEN Sample(SetToSeq(Numbers \ Range(moved)),
                                      5 - Len(moved), s2, <<>>)
                          ELSE [v |-> <<>>, s |-> s2]
             IN  [v |-> Sorted(moved \o fill.v), s |-> fill.s]

\* initial population: pop_size individuals; [v, s, ok]
RECURSIVE InitialPopulation(_, _, _, _, _)
InitialPopulation(probs, constraints, s, left, acc) ==
    IF left = 0 THEN [v |-> acc, s |-> s, ok |-> TRUE]
    ELSE Let(_generate_individual(probs, constraints, s), LAMBDA ind :
             IF ~ind.ok THEN [v |-> acc, s |-> ind.s, ok |-> FALSE]
             ELSE InitialPopulation(probs, constraints, ind.s, left - 1,
                                    Append(acc, ind.v)))

\* first index of the largest value (max(..., key=...) and np.argmax)
ArgMax(values) ==
    CHOOSE i \in DOMAIN values :
        /\ \A j \in DOMAIN values : values[j] <= values[i]
        /\ \A j \in 1..(i - 1) : values[j] < values[i]

\* tournament selection, repeated pop_size times
RECURSIVE Selection(_, _, _, _, _)
Selection(population, fitness_scores, s, left, acc) ==
    IF left = 0 THEN [v |-> acc, s |-> s]
    ELSE LET tournament == Sample([i \in DOMAIN population |-> i], 3, s, <<>>)
             winner == tournament.v[ArgMax([k \in 1..3 |-> fitness_scores[tournament.v[k]]])]
         IN  Selection(population, fitness_scores, tournament.s, left - 1,
                       Append(acc, population[winner]))

\* if random.random() < mutation_rate: child = self._mutate(child, probs)
MaybeMutate(child, probs, s) ==
    IF RngBelow(s, 10) < 3 THEN _mutate(child, probs, s) ELSE [v |-> child, s |-> s]

\* crossover and mutation of the selected parents, two children per pair
RECURSIVE Reproduce(_, _, _, _, _)
Reproduce(selected, probs, s, i, acc) ==
    IF i > Len(selected) THEN [v |-> acc, s |-> s]
    ELSE Let(_crossover(selected[i],
                        IF i + 1 <= Len(selected) THEN selected[i + 1] ELSE selected[1],
                        s), LAMBDA x :
         Let(MaybeMutate(x.c1, probs, RngNext(x.s)), LAMBDA m1 :
         Let(MaybeMutate(x.c2, probs, RngNext(m1.s)), LAMBDA m2 :
             Reproduce(selected, probs, m2.s, i + 2, acc \o <<m1.v, m2.v>>))))

RECURSIVE Evolve(_, _, _, _, _)
Evolve(population, probs, constraints, s, left) ==
    IF left = 0 THEN [v |-> population, s |-> s]
    ELSE Let(Selection(population,
                       List([i \in DOMAIN population |->
                                _fitness(population[i], probs, constraints)]),
                       s, pop_size, <<>>), LAMBDA selected :
         Let(Reproduce(selected.v, probs, selected.s, 1, <<>>), LAMBDA children :
             Evolve(Take(children.v, pop_size), probs, constraints, children.s, left - 1)))

\* evolve_solution: [v, s, ok]
evolve_solution(number_probs, constraints, s) ==
    Let(InitialPopulation(number_probs, constraints, s, pop_size, <<>>), LAMBDA initial :
        IF ~initial.ok THEN [v |-> <<>>, s |-> initial.s, ok |-> FALSE]
        ELSE Let(Evolve(initial.v, number_probs, constraints, initial.s, generations),
                 LAMBDA final :
                 [v |-> Sorted(final.v[ArgMax([i \in DOMAIN final.v |->
                                   _fitness(final.v[i], number_probs, constraints)])]),
                  s |-> final.s, ok |-> TRUE]))

\* _genetic_optimization: the pattern-derived distribution (weights in
\* two-hundredths, before normalisation) and the constraints.  The read of
\* patterns['sum_range'] raises KeyError on the empty summary: raised |-> TRUE
GeneticProbs(patterns, historical) ==
    LET n      == Len(historical)
        last30 == Flatten(SubSeq(historical, IF n > 30 THEN n - 29 ELSE 1, n))
        freq   == List([num \in 1..90 |-> Count(last30, num)])
        max_freq == IF last30 = <<>> THEN 1
                    ELSE CHOOSE m \in Range(freq) : \A k \in Range(freq) : k <= m
        hot10  == Range(Take(patterns.hot_numbers, 10))
        cold5  == Range(Take(patterns.cold_numbers, 5))
    IN  [num \in 1..90 |->
            2
          + (IF num \in hot10 THEN 80 ELSE 0)
          + (IF num \in cold5 /\ patterns.skips[num] > 20
             THEN 2 * patterns.skips[num] ELSE 0)
          + (IF IsDue(patterns, num) THEN 40 ELSE 0)
          + (20 * freq[num]) \div max_freq]

_genetic_optimization(patterns, historical, s) ==
    IF patterns.empty THEN [v |-> <<>>, s |-> s, ok |-> TRUE, raised |-> TRUE]
    ELSE Let(evolve_solution(List(GeneticProbs(patterns, historical)),
                        [target_sum_range |-> patterns.sum_range,
                         even_odd_target |-> {2, 3}, high_low_target |-> {2, 3}], s),
             LAMBDA run : [v |-> run.v, s |-> run.s, ok |-> run.ok, raised |-> FALSE])

-----------------------------------------------------------------------------
(* Ensemble vote, yearly boost and consensus numbers                       *)

\* the distinct values of a list in order of first appearance (the key order
\* of a Counter filled from the list)
FirstAppearance(all_numbers) ==
    LET idx == SetToSeq({i \in DOMAIN all_numbers :
                            \A j \in 1..(i - 1) : all_numbers[j] # all_numbers[i]})
    IN  List([p \in 1..Len(idx) |-> all_numbers[idx[p]]])

\* concatenation of a list of lists
RECURSIVE Concat(_)
Concat(lists) ==
    IF lists = <<>> THEN <<>> ELSE Head(lists) \o Concat(Tail(lists))

\* weights that would let the fourth strategy outvote any two others
heavy_weights == <<10, 12, 11, 300>>

\* strategy_weights of _ensemble_vote, in tenths: ML, Genetic, Pattern,
\* Intelligence
strategy_weights == <<10, 12, 11, 13>>

\* _ensemble_vote, votes in tenths: every occurrence of a number adds the
\* weight of its strategy and 0.5 per strategy that holds the number; the
\* combined score is 10 per strategy plus the votes
_ensemble_vote(predictions) ==
    IF predictions = <<>> THEN <<>>
    ELSE
    LET flat == Concat(predictions)
        nums == FirstAppearance(flat)
        strategy_count(num) == Count(flat, num)
        votes(num) ==
            SumSeq([i \in DOMAIN predictions |->
                      Count(predictions[i], num)
                        * ((IF i <= Len(strategy_weights) THEN strategy_weights[i] ELSE 10)
                           + 5 * strategy_count(num))])
        number_scores == SortDesc(nums, [i \in DOMAIN nums |->
                            <<100 * strategy_count(nums[i]) + votes(nums[i]),
                              strategy_count(nums[i]), votes(nums[i])>>])
        selected == Take(number_scores, 5)
        remaining == SetToSeq(Numbers \ Range(selected))
    IN  Sorted(selected \o Take(remaining, 5 - Len(selected)))

\* _boost_with_yearly_patterns: up to two of the ten strongest pattern
\* numbers replace the entries of the base prediction with the lowest
\* pattern score.  patterns is the list of [numbers, confidence] records of
\* the yearly analysis (confidence in hundredths)
PatternScore(patterns, num) ==
    SumSeq([i \in DOMAIN patterns |->
               Count(patterns[i].numbers, num) * patterns[i].confidence])

RECURSIVE BoostLoop(_, _, _, _, _)
BoostLoop(boosted, patterns, top_pattern_nums, i, replacements) ==
    IF i > Len(top_pattern_nums) THEN boosted
    ELSE LET num == top_pattern_nums[i]
             score == List([k \in DOMAIN boosted |-> PatternScore(patterns, boosted[k])])
             min_score_idx == CHOOSE k \in DOMAIN boosted :
                                 /\ \A j \in DOMAIN boosted : score[k] <= score[j]
                                 /\ \A j \in 1..(k - 1) : score[j] > score[k]
         IN  IF num \notin Range(boosted) /\ replacements < 2
             THEN BoostLoop([boosted EXCEPT ![min_score_idx] = num], patterns,
                            top_pattern_nums, i + 1, replacements + 1)
             ELSE BoostLoop(boosted, patterns, top_pattern_nums, i + 1, replacements)

\* the result is [v, raised]: boosted[0] of an empty base prediction raises
_boost_with_yearly_patterns(yearly_analysis, base_prediction) ==
    LET patterns == yearly_analysis.patterns
        nums == FirstAppearance(Concat([i \in DOMAIN patterns |-> patterns[i].numbers]))
        top_pattern_nums ==
            Take(SortDesc(nums, [i \in DOMAIN nums |-> <<PatternScore(patterns, nums[i])>>]), 10)
    IN  IF yearly_analysis.empty \/ patterns = <<>> \/ nums = <<>>
        THEN [v |-> base_prediction, raised |-> FALSE]
        ELSE IF base_prediction = <<>> THEN [v |-> <<>>, raised |-> TRUE]
        ELSE [v |-> Sorted(BoostLoop(base_prediction, patterns, top_pattern_nums, 1, 0)),
              raised |-> FALSE]

\* the keys of the result dict in insertion order
StrategyKeys == <<"ml", "genetic", "pattern", "intelligence", "ensemble", "yearly">>

\* strategy_weights of _extract_consensus_numbers, in tenths
ConsensusWeight(strategy) ==
    CASE strategy = "genetic" -> 12
      [] strategy = "pattern" -> 11
      [] strategy = "intelligence" -> 13
      [] OTHER -> 10

\* number_scores of _extract_consensus_numbers after the sort, as
\* <<num, score>> pairs, scores in tenths: 100 per strategy that holds the
\* number, plus the weighted count, plus 10 times the recency boost (0.3
\* rising, 0.2 accelerating, among the first ten of each)
ConsensusRanking(predictions, trend_data) ==
    LET keys == FilterSeq(StrategyKeys, DOMAIN predictions)
        InRange(pred) == FilterSeq(pred, Numbers)
        flat == Concat([k \in DOMAIN keys |->
                          Concat([j \in DOMAIN predictions[keys[k]] |->
                                     InRange(predictions[keys[k]][j])])])
        nums == FirstAppearance(flat)
        count(num) ==
            SumSeq([k \in DOMAIN keys |->
                      ConsensusWeight(keys[k])
                        * SumSeq([j \in DOMAIN predictions[keys[k]] |->
                                     Count(predictions[keys[k]][j], num)])])
        consensus_count(num) ==
            Cardinality({k \in DOMAIN keys :
                           \E j \in DOMAIN predictions[keys[k]] :
                               num \in Range(predictions[keys[k]][j])})
        boost(num) ==
            IF trend_data.empty THEN 0
            ELSE (IF num \in Range(Take(trend_data.rising, 10)) THEN 30 ELSE 0)
               + (IF num \in Range(Take(trend_data.accelerating, 10)) THEN 20 ELSE 0)
        score(num) == 1000 * consensus_count(num) + count(num) + boost(num)
    IN  SortDesc(List([i \in DOMAIN nums |-> <<nums[i], score(nums[i])>>]),
                 [i \in DOMAIN nums |->
                    <<score(nums[i]), consensus_count(nums[i]), count(nums[i])>>])

\* a ranking that would depend on how many numbers are asked for
ConsensusShifted(predictions, trend_data, n_numbers) ==
    Let(ConsensusRanking(predictions, trend_data), LAMBDA number_scores :
        Sorted([i \in 1..(IF Len(number_scores) < 2 * n_numbers - 1
                          THEN 0 ELSE n_numbers) |->
                   number_scores[n_numbers + i - 1][1]]))

\* the n_numbers first numbers of the ranking, sorted
_extract_consensus_numbers(predictions, trend_data, n_numbers) ==
    Let(ConsensusRanking(predictions, trend_data), LAMBDA number_scores :
        Sorted([i \in 1..(IF Len(number_scores) < n_numbers
                          THEN Len(number_scores) ELSE n_numbers) |->
                   number_scores[i][1]]))

-----------------------------------------------------------------------------
(* YearlyPatternAnalyzer and MLYearlyPredictor                             *)

\* A date is <<year, month, day>> (the string 'YYYY-MM-DD'); draw_dates and
\* lotto_types are <<>> when the caller passes None.  The analyzer's
\* yearly_data and yearly_data_with_dates are one list of
\* [year, draws, dated] records in dict insertion order, dated holding the
\* (date, draw, lotto_type) tuples; the lotto type None is "".

YearOf(date) == date[1]

LottoTypeAt(lotto_types, i) == IF i <= Len(lotto_types) THEN lotto_types[i] ELSE ""

\* organize_by_year: by the first four characters of the date when dates
\* are given for every draw, otherwise every draw falls in the current year
\* of the wall clock (fewer than 300 draws) with the date 'YYYY-06-15'
organize_by_year(draws, draw_dates, lotto_types, now) ==
    LET dated  == draw_dates # <<>> /\ Len(draw_dates) = Len(draws)
        DateAt(i) == IF dated THEN draw_dates[i] ELSE <<YearOf(now), 6, 15>>
        years  == FirstAppearance([i \in DOMAIN draws |-> YearOf(DateAt(i))])
        Of(year) == SetToSeq({i \in DOMAIN draws : YearOf(DateAt(i)) = year})
    IN  IF draws = <<>>
        THEN << [year |-> YearOf(now), draws |-> <<>>, dated |-> <<>>] >>
        ELSE List([k \in DOMAIN years |->
                LET idx == Of(years[k])
                IN  [year  |-> years[k],
                     draws |-> List([p \in DOMAIN idx |-> draws[idx[p]]]),
                     dated |-> List([p \in DOMAIN idx |->
                                  <<DateAt(idx[p]), draws[idx[p]],
                                    LottoTypeAt(lotto_types, idx[p])>>])]])

\* the years in ascending order, as positions in the yearly data
SortedYears(yearly_data) ==
    LET idx == [k \in DOMAIN yearly_data |-> k]
    IN  SortDesc(idx, [k \in DOMAIN yearly_data |-> <<0 - yearly_data[k].year>>])

\* calculate_yearly_frequencies: per year the numbers by falling frequency;
\* hot is the first 15, cold the last 15
YearSorted(year_rec) ==
    LET flat == Flatten(year_rec.draws)
    IN  MostCommon(flat, 90)

yearly_hot_numbers(year_rec) == Take(YearSorted(year_rec), 15)

yearly_cold_numbers(year_rec) ==
    LET sorted_nums == YearSorted(year_rec)
        n == Len(sorted_nums)
    IN  SubSeq(sorted_nums, IF n > 15 THEN n - 14 ELSE 1, n)

YearFreq(year_rec, num) == Count(Flatten(year_rec.draws), num)

\* _find_recurring_numbers over the hot lists: numbers hot in at least two
\* years, by falling number of years, at most ten
_find_recurring_numbers(yearly_data) ==
    Let(Concat([k \in DOMAIN yearly_data |-> yearly_hot_numbers(yearly_data[k])]),
        LAMBDA flat :
    Let(FilterSeq(FirstAppearance(flat), {n \in Numbers : Count(flat, n) >= 2}),
        LAMBDA recurring :
            Take(SortDesc(recurring, [i \in DOMAIN recurring |->
                                         <<Count(flat, recurring[i])>>]), 10)))

\* _detect_cold_to_hot_transitions: cold last year and in more than 10% of
\* this year's draws; the set of cold numbers is walked in ascending order
_detect_cold_to_hot_transitions(yearly_data) ==
    LET years == SortedYears(yearly_data)
        prev  == yearly_data[years[Len(years) - 1]]
        curr  == yearly_data[years[Len(years)]]
    IN  IF Len(years) < 2 THEN <<>>
        ELSE Take(SetToSeq({n \in Range(yearly_cold_numbers(prev)) :
                               10 * YearFreq(curr, n) > Len(curr.draws)}), 5)

\* rate of year a compared with rate of year b, by cross multiplication (a
\* year without draws has rate 0)
RateLT(yearly_data, num, a, b) ==
    LET ra == yearly_data[a]
        rb == yearly_data[b]
    IN  IF Len(ra.draws) = 0 THEN Len(rb.draws) > 0 /\ YearFreq(rb, num) > 0
        ELSE IF Len(rb.draws) = 0 THEN FALSE
        ELSE YearFreq(ra, num) * Len(rb.draws) < YearFreq(rb, num) * Len(ra.draws)

\* _detect_cyclical_patterns: the yearly rates alternate, three years or more
_detect_cyclical_patterns(yearly_data) ==
    LET years == SortedYears(yearly_data)
        n == Len(years)
        Alternates(num, i) ==
            \/ /\ RateLT(yearly_data, num, years[i + 1], years[i])
               /\ RateLT(yearly_data, num, years[i + 1], years[i + 2])
            \/ /\ RateLT(yearly_data, num, years[i], years[i + 1])
               /\ RateLT(yearly_data, num, years[i + 2], years[i + 1])
    IN  IF n < 3 THEN <<>>
        ELSE Take(SetToSeq({num \in Numbers : \A i \in 1..(n - 2) : Alternates(num, i)}), 5)

\* _detect_frequency_trends: the rates never fall, or the last rate is more
\* than 1.3 times the one before, and the last rate is above 5%; by falling
\* last rate, at most ten
_detect_frequency_trends(yearly_data) ==
    LET years == SortedYears(yearly_data)
        n     == Len(years)
        last_rec == yearly_data[years[n]]
        prev_rec == yearly_data[years[n - 1]]
        Rising(num) == \A i \in 1..(n - 1) :
                          ~RateLT(yearly_data, num, years[i + 1], years[i])
        Surge(num) ==
            IF Len(last_rec.draws) = 0 THEN FALSE
            ELSE IF Len(prev_rec.draws) = 0 THEN YearFreq(last_rec, num) > 0
            ELSE 10 * YearFreq(last_rec, num) * Len(prev_rec.draws)
                    > 13 * YearFreq(prev_rec, num) * Len(last_rec.draws)
    IN  IF n < 2 THEN <<>>
        ELSE Let(SetToSeq({num \in Numbers :
                              /\ Rising(num) \/ Surge(num)
                              /\ 20 * YearFreq(last_rec, num) > Len(last_rec.draws)}),
                 LAMBDA trending :
                     Take(SortDesc(trending, [i \in DOMAIN trending |->
                                                 <<YearFreq(last_rec, trending[i])>>]), 10))

\* _find_stable_numbers: in more than 3% of the draws of at least 80% of the
\* years; at most ten
_find_stable_numbers(yearly_data) ==
    LET appearances(num) ==
            Cardinality({k \in DOMAIN yearly_data :
                           /\ Len(yearly_data[k].draws) > 0
                           /\ 100 * YearFreq(yearly_data[k], num)
                                 > 3 * Len(yearly_data[k].draws)})
    IN  IF Len(yearly_data) < 2 THEN <<>>
        ELSE Take(SetToSeq({num \in Numbers :
                              10 * appearances(num) >= 8 * Len(yearly_data)}), 10)

\* detect_cross_year_patterns, confidence in three-hundredths.  With a
\* single year the foundation pattern is returned but not stored in
\* cross_year_patterns (the early return comes before the assignment):
\* [patterns, cross_year_patterns]
PatternEntry(type, numbers, confidence) ==
    IF numbers = <<>> THEN <<>>
    ELSE << [type |-> type, numbers |-> numbers, confidence |-> confidence] >>

RecurringHot(recurring_hot) ==
    PatternEntry("recurring_hot", recurring_hot, 20 * Len(recurring_hot))

Stored(patterns) == [patterns |-> patterns, cross_year_patterns |-> patterns]

detect_cross_year_patterns(yearly_data) ==
    IF Len(yearly_data) < 2
    THEN [patterns |-> PatternEntry("stable_foundation",
                                    Take(yearly_hot_numbers(yearly_data[1]), 10), 180),
          cross_year_patterns |-> <<>>]
    ELSE Stored(RecurringHot(_find_recurring_numbers(yearly_data))
             \o PatternEntry("cold_to_hot", _detect_cold_to_hot_transitions(yearly_data), 180)
             \o PatternEntry("cyclical", _detect_cyclical_patterns(yearly_data), 150)
             \o PatternEntry("trending", _detect_frequency_trends(yearly_data), 210)
             \o PatternEntry("stable_foundation", _find_stable_numbers(yearly_data), 240))

\* hash(lotto_type) % 1000: the string hash of CPython is salted with the
\* hash seed of the process
LottoTypeCode(lotto_type) ==
    CASE lotto_type = "Monday" -> 417
      [] lotto_type = "Fortune" -> 268
      [] OTHER -> 0

LottoHash(lotto_type, seed) ==
    IF lotto_type = "" THEN 0
    ELSE (LottoTypeCode(lotto_type) * 131 + seed * 977) % 1000

\* all_draws_by_date: one (draw, lotto_type) entry per date, the last draw
\* with a date replacing the earlier ones
all_draws_by_date(yearly_data) ==
    LET all == Concat([k \in DOMAIN yearly_data |-> yearly_data[k].dated])
        keep == SetToSeq({i \in DOMAIN all :
                            \A j \in (i + 1)..Len(all) : all[j][1] # all[i][1]})
    IN  List([p \in DOMAIN keep |-> all[keep[p]]])

\* MLYearlyPredictor.train: False below 100 samples (90 per draw of every
\* year but the last) or when the fit raises; fit_raises is the fault
MLYearlyTrain(yearly_data, fit_raises) ==
    LET years == SortedYears(yearly_data)
        training == SubSeq(years, 1, Len(years) - 1)
        samples == 90 * SumSeq([k \in DOMAIN training |->
                                   Len(yearly_data[training[k]].draws)])
    IN  Len(years) >= 2 /\ samples >= 100 /\ ~fit_raises

\* The fitted RandomForest + GradientBoosting ensemble (random_state = 42) is
\* a fixed function of its training set and of the feature vector of the
\* number: the date features of the target date, lotto_type_hash, the number
\* and its weighted frequency (1.0 for draws of the target lotto type, 0.3
\* for the others).  The model takes one such function.
YearlyClassifierScore(by_date, target_date, lotto_hash, target_lotto_type, num) ==
    SumSeq([i \in DOMAIN by_date |->
              IF num \in Range(by_date[i][2])
              THEN (IF by_date[i][3] = target_lotto_type THEN 10 ELSE 3)
              ELSE 0])
    + ((num * 7 + target_date[2] * 31 + target_date[3] + lotto_hash) % 11)

\* predict_numbers_for_date with trained models: the five numbers with the
\* highest probability
predict_numbers_for_date(target_date, by_date, target_lotto_type, seed) ==
    LET nums == [i \in 1..90 |-> i]
        lotto_hash == LottoHash(target_lotto_type, seed)
    IN  Sorted(Take(SortDesc(nums, [i \in 1..90 |->
                <<YearlyClassifierScore(by_date, target_date, lotto_hash,
                                        target_lotto_type, i)>>]), 5))

\* pattern_weights of predict_with_yearly_patterns, in twentieths
pattern_weights(type) ==
    CASE type = "stable_foundation" -> 5
      [] type = "recurring_hot" -> 5
      [] type = "trending" -> 4
      [] type = "cold_to_hot" -> 3
      [] type = "cyclical" -> 3
      [] OTHER -> 2

min_draws_for_analysis == 10

\* five numbers drawn without replacement from the ranked candidates, the
\* k-th remaining candidate with weight 1/k (in sixtieths, rounded down), by
\* random.choices on the process-wide generator: [v, s]
RECURSIVE PickRanked(_, _, _, _)
PickRanked(remaining, left, s, acc) ==
    IF left = 0 \/ remaining = <<>> THEN [v |-> acc, s |-> s]
    ELSE Let(WeightedPick(remaining, CumWeights([k \in DOMAIN remaining |-> 60 \div k]),
                          RngNext(s)),
             LAMBDA chosen :
                 PickRanked(FilterSeq(remaining, Numbers \ {chosen}), left - 1, RngNext(s),
                            Append(acc, chosen)))

RECURSIVE PatternPredictions(_, _, _, _)
PatternPredictions(candidates, left, s, acc) ==
    IF left = 0 THEN [v |-> acc, s |-> s]
    ELSE Let(PickRanked(candidates, 5, s, <<>>), LAMBDA pick :
             PatternPredictions(candidates, left - 1, pick.s,
                                Append(acc, [numbers |-> Sorted(pick.v),
                                             source |-> "yearly_pattern"])))

\* the weight of a number, in 1/(6000 * L) for L draws in the current year
YearlyWeight(num, ml_prediction, cross_year_patterns, curr_flat, L) ==
    (IF num \in Range(ml_prediction) THEN 3000 * L ELSE 0)
  + SumSeq([i \in DOMAIN cross_year_patterns |->
              Count(cross_year_patterns[i].numbers, num)
                * pattern_weights(cross_year_patterns[i].type)
                * cross_year_patterns[i].confidence * L])
  + 1800 * Count(curr_flat, num)

\* the 30 numbers of the highest weight, by all-time frequency when nothing
\* has a weight
TopThirty(keyed, ml_prediction, cross_year_patterns, curr_flat, all_flat, L) ==
    Take(IF keyed # <<>>
         THEN SortDesc(keyed, [i \in DOMAIN keyed |->
                  <<YearlyWeight(keyed[i], ml_prediction, cross_year_patterns,
                                 curr_flat, L)>>])
         ELSE MostCommon(all_flat, 90), 30)

\* the candidates, filled up to five from the numbers not used
YearlyCandidates(top30, ml_prediction) ==
    IF Len(top30) < 5
    THEN top30 \o Take(SetToSeq(Numbers \ (Range(ml_prediction) \cup Range(top30))),
                       5 - Len(top30))
    ELSE top30

\* the predictions: the one of the date predictor first, the rest drawn
\* from the candidates, and the frequency fallback when there is none
YearlyPredictions(ml_prediction, candidates, all_flat, s) ==
    LET first_pred == IF Len(ml_prediction) = 5
                      THEN << [numbers |-> ml_prediction, source |-> "ml_yearly"] >>
                      ELSE <<>>
    IN  IF Len(candidates) >= 5
        THEN Let(PatternPredictions(candidates, 5 - Len(first_pred), s, <<>>), LAMBDA rest :
                 [predictions |-> first_pred \o rest.v, s |-> rest.s])
        ELSE IF first_pred # <<>> THEN [predictions |-> first_pred, s |-> s]
        ELSE [predictions |->
                 << [numbers |-> IF all_flat # <<>> THEN Sorted(MostCommon(all_flat, 5))
                                 ELSE <<15, 30, 45, 60, 75>>,
                     source |-> "yearly_fallback"] >>,
              s |-> s]

WeightedPredictions(ml_prediction, cross_year_patterns, curr_flat, all_flat, L, s) ==
    YearlyPredictions(ml_prediction,
        YearlyCandidates(
            TopThirty(FirstAppearance(ml_prediction
                          \o Concat([i \in DOMAIN cross_year_patterns |->
                                        cross_year_patterns[i].numbers])
                          \o curr_flat),
                      ml_prediction, cross_year_patterns, curr_flat, all_flat, L),
            ml_prediction),
        all_flat, s)

\* predict_with_yearly_patterns: [predictions, s] with s the generator state
\* afterwards.  ml_raises is the fault of the date predictor raising.
predict_with_yearly_patterns(yearly_data, cross_year_patterns, current_year_draws, ml_trained, ml_raises, target_date, target_lotto_type, seed, s) ==
    WeightedPredictions(
        IF ml_trained /\ ~ml_raises
        THEN predict_numbers_for_date(target_date, all_draws_by_date(yearly_data),
                                      target_lotto_type, seed)
        ELSE <<>>,
        cross_year_patterns,
        IF Len(current_year_draws) >= min_draws_for_analysis
        THEN Flatten(current_year_draws) ELSE <<>>,
        Concat([k \in DOMAIN yearly_data |-> Flatten(yearly_data[k].draws)]),
        IF current_year_draws = <<>> THEN 1 ELSE Len(current_year_draws),
        s)

\* the {} that _initialize_system stores when the yearly analysis raises
EmptyYearly ==
    [empty |-> TRUE, patterns |-> <<>>, predictions |-> <<>>, ml_trained |-> FALSE]

\* YearlyPatternAnalyzer.analyze: [analysis, s]
Analysis(detected, predicted, ml_trained) ==
    [analysis |-> [empty |-> FALSE, patterns |-> detected.patterns,
                   predictions |-> predicted.predictions,
                   ml_trained |-> ml_trained],
     s |-> predicted.s]

Analyzed(yearly_data, ml_trained, detected, lotto_types, now, seed, s, ml_raises) ==
    Analysis(detected,
             predict_with_yearly_patterns(yearly_data, detected.cross_year_patterns,
                 yearly_data[SortedYears(yearly_data)[Len(yearly_data)]].draws,
                 ml_trained, ml_raises, now,
                 IF lotto_types # <<>> THEN lotto_types[Len(lotto_types)] ELSE "",
                 seed, s),
             ml_trained)

analyze(draws, draw_dates, lotto_types, now, seed, s, fit_raises, ml_raises) ==
    Let(organize_by_year(draws, draw_dates, lotto_types, now), LAMBDA yearly_data :
        Analyzed(yearly_data, MLYearlyTrain(yearly_data, fit_raises),
                 detect_cross_year_patterns(yearly_data),
                 lotto_types, now, seed, s, ml_raises))

-----------------------------------------------------------------------------
(* IntelligenceEngine: the sub-engine consumed by the intelligence and     *)
(* ensemble strategies.  Its module is not part of the sources; it is      *)
(* modelled from its interface: construct(winningDraws, machineDraws,      *)
(* seed), generatePersonaTickets(persona) -> list<Draw>,                   *)
(* scoreTicket(Draw) -> real, unifiedScore(number) -> real.                *)

personas == <<"balanced", "structural_anchor", "machine_memory_hunter",
              "cluster_rider", "breakout_speculator">>

\* how the sub-engine behaves in one request: it works; its construction
\* raises; every persona returns no ticket (predict still works, or returns
\* a short list, or raises); or every one of its methods raises
IntelModes == {"ok", "construct_raises", "no_tickets", "no_tickets_short",
               "no_tickets_predict_raises", "all_raise"}

compute_unified_score(historical, machine_draws, k) ==
    2 * Count(Flatten(historical), k) + Count(Flatten(machine_draws), k)

generate_persona_tickets(historical, machine_draws, seed, p) ==
    << Sorted(Sample([i \in 1..90 |-> i], 5, RngSeed(seed + p), <<>>).v) >>

score_ticket(historical, machine_draws, ticket) ==
    SumSeq([i \in DOMAIN ticket |->
               compute_unified_score(historical, machine_draws, ticket[i])])

IntelPredict(historical, machine_draws, seed, mode) ==
    IF mode = "no_tickets_short" THEN <<7, 9>>
    ELSE generate_persona_tickets(historical, machine_draws, seed, 1)[1]

-----------------------------------------------------------------------------
(* EnhancedLottoOracle.generate_predictions                                *)

\* a fallback that would keep four numbers
FrequencyFallbackFour(historical) == Sorted(MostCommon(Flatten(historical), 4))

\* the frequency-based fallback: the five most frequent historical numbers
FrequencyFallback(historical) == Sorted(MostCommon(Flatten(historical), 5))

\* the five numbers with the highest unified score, sorted
UnifiedTopFive(historical, machine_draws) ==
    LET nums == [i \in 1..90 |-> i]
    IN  Sorted(Take(SortDesc(nums, [i \in 1..90 |->
                   <<compute_unified_score(historical, machine_draws, i)>>]), 5))

\* the steps of a request that an injected fault can make raise
FaultNames == {"summary", "ml", "genetic", "pattern", "vote", "boost"}

\* the intelligence strategy with aligned machine draws: the persona
\* tickets, the best by score, and the chain of fallbacks
IntelligenceStrategy(historical, machine_draws, seed, mode) ==
    IF mode = "construct_raises" THEN FrequencyFallback(historical)
    ELSE IF mode = "ok"
    THEN Let(Concat([p \in DOMAIN personas |->
                       generate_persona_tickets(historical, machine_draws, seed, p)]),
             LAMBDA all_tickets :
                 SortDesc(all_tickets, [i \in DOMAIN all_tickets |->
                     <<score_ticket(historical, machine_draws, all_tickets[i])>>])[1])
    ELSE IF mode = "all_raise" THEN <<1, 2, 3, 4, 5>>
    ELSE IF mode = "no_tickets_predict_raises"
         THEN UnifiedTopFive(historical, machine_draws)
    ELSE Let(IntelPredict(historical, machine_draws, seed, mode), LAMBDA fallback_ticket :
             IF Len(fallback_ticket) = 5 THEN fallback_ticket
             ELSE UnifiedTopFive(historical, machine_draws))

\* the intelligence candidate of the ensemble: predict('balanced') aligned
\* with the two consensus numbers of ml, genetic and pattern, which replace
\* the numbers of the lowest unified score; <<>> stands for None
AlignWithConsensus(historical, machine_draws, base_pred, missing_consensus) ==
    LET sorted_by_score ==
            SortDesc(base_pred, [i \in DOMAIN base_pred |->
                <<0 - compute_unified_score(historical, machine_draws, base_pred[i])>>])
    IN  IF Len(base_pred) = 5 /\ missing_consensus # <<>>
        THEN Sorted([i \in DOMAIN base_pred |->
                        IF IndexOf(sorted_by_score, base_pred[i]) <= Len(missing_consensus)
                        THEN missing_consensus[IndexOf(sorted_by_score, base_pred[i])]
                        ELSE base_pred[i]])
        ELSE base_pred

EnsembleIntelligence(historical, machine_draws, seed, mode, ml_pred, genetic_pred, pattern_pred, trend_data) ==
    IF mode \in {"construct_raises", "no_tickets_predict_raises", "all_raise"}
    THEN <<>>
    ELSE Let(IntelPredict(historical, machine_draws, seed, mode), LAMBDA base_pred :
             AlignWithConsensus(historical, machine_draws, base_pred,
                 FilterSeq(_extract_consensus_numbers(
                               ("ml" :> <<ml_pred>>) @@ ("genetic" :> <<genetic_pred>>)
                                   @@ ("pattern" :> <<pattern_pred>>), trend_data, 2),
                           Numbers \ Range(base_pred))))

\* a request that would not seed: the generator stays as it was found
KeepRandomState(rng_state, seed) == rng_state

\* random.seed(seed): the state of the process-wide generator after the
\* seeding at the start of a request, whatever its state before
SeedRandom(rng_state, seed) == RngSeed(seed)

\* the function with no key: the empty result dict
NoResults == [k \in {} |-> <<>>]

\* the pool handed to the repair: the first 20 rising numbers, then the rest
\* of 1..90 in order; 1..90 when the trend analysis is {}
good_pool(trend_data) ==
    LET all == [i \in 1..90 |-> i]
        rising == Take(trend_data.rising, 20)
    IN  IF trend_data.empty THEN all
        ELSE rising \o FilterSeq(all, Numbers \ Range(rising))

\* the anti-pattern pass over one candidate: [v, rounds], rounds the number
\* of repair rounds fix_prediction went through (0 when it was not called)
AntiPatternPass(pred, trend_data) ==
    IF Len(pred) = 5 /\ check_patterns(pred) # {}
    THEN Let(fix_prediction_run(pred, good_pool(trend_data)), LAMBDA run :
             [v |-> Sorted(run.result), rounds |-> run.rounds])
    ELSE [v |-> pred, rounds |-> 0]

\* strategy agreement of a candidate, as <<numerator, denominator>>: the
\* overlap with every produced candidate (itself included) over 5, divided
\* by the number of strategies
StrategyAgreement(results, pred) ==
    LET keys == FilterSeq(StrategyKeys, DOMAIN results)
    IN  << SumSeq([k \in DOMAIN keys |->
                     SumSeq([j \in DOMAIN results[keys[k]] |->
                               Cardinality(Range(pred) \cap Range(results[keys[k]][j]))])]),
           5 * (IF Len(keys) > 1 THEN Len(keys) ELSE 1) >>

\* the tail of a request that reaches it: anti-pattern pass, consensus
\* numbers, confidence pass, and the entry in prediction_history
Scored(filtered, passed, trend_data) ==
    [outcome |-> "returned",
     results |-> filtered,
     rounds  |-> [k \in DOMAIN passed |->
                    List([j \in DOMAIN passed[k] |-> passed[k][j].rounds])],
     two_sure |-> IF DOMAIN filtered = {} THEN <<>>
                  ELSE _extract_consensus_numbers(filtered, trend_data, 2),
     three_direct |-> IF DOMAIN filtered = {} THEN <<>>
                      ELSE _extract_consensus_numbers(filtered, trend_data, 3),
     confidence |-> [k \in {k \in DOMAIN filtered :
                               \E j \in DOMAIN filtered[k] : Len(filtered[k][j]) = 5} |->
                       StrategyAgreement(filtered,
                           filtered[k][CHOOSE j \in DOMAIN filtered[k] :
                               /\ Len(filtered[k][j]) = 5
                               /\ \A i \in DOMAIN filtered[k] :
                                    Len(filtered[k][i]) = 5 => i <= j])],
     has_confidence |-> TRUE, logged |-> TRUE, rng |-> 0]

FinishRequest(results, trend_data) ==
    Let([k \in DOMAIN results |->
            List([j \in DOMAIN results[k] |-> AntiPatternPass(results[k][j], trend_data)])],
        LAMBDA passed :
            Scored([k \in DOMAIN passed |->
                       List([j \in DOMAIN passed[k] |-> passed[k][j].v])],
                   passed, trend_data))

\* a request that raises to its caller
Raised ==
    [outcome |-> "raised", results |-> NoResults, rounds |-> NoResults,
     two_sure |-> <<>>, three_direct |-> <<>>, confidence |-> NoResults,
     has_confidence |-> FALSE, logged |-> FALSE, rng |-> 0]

\* an early exit that would raise instead
EarlyRaise(results) == Raised

\* the early return of the intelligence strategy: the result dict as it is,
\* before the anti-pattern pass, without consensus numbers, without the key
\* '_confidence' (has_confidence) and without an entry in prediction_history
EarlyReturn(results) ==
    [outcome |-> "returned", results |-> results,
     rounds |-> [k \in DOMAIN results |-> [j \in DOMAIN results[k] |-> 0]],
     two_sure |-> <<>>, three_direct |-> <<>>, confidence |-> NoResults,
     has_confidence |-> FALSE, logged |-> FALSE, rng |-> 0]

\* a default list that would be one number short
default_short == <<10, 25, 45, 65>>

\* the yearly strategy: the cached first prediction of the yearly analysis,
\* then ML-boosted, pattern, frequency, and the default list; an exception
\* in a tier leads to the emergency pattern prediction or the default list
default_yearly == <<10, 25, 45, 65, 80>>

YearlyTiers(tier0, ml_pred, boosted, pattern_pred, frequency, faults) ==
    LET tier1 == IF tier0 # <<>> THEN tier0
                 ELSE IF Len(ml_pred) = 5 THEN boosted.v ELSE <<>>
        tier2 == IF Len(tier1) # 5 THEN pattern_pred ELSE tier1
        tier3 == IF Len(tier2) # 5 THEN frequency ELSE tier2
        raises == \/ tier0 = <<>> /\ "ml" \in faults
                  \/ tier0 = <<>> /\ Len(ml_pred) = 5
                                  /\ ("boost" \in faults \/ boosted.raised)
                  \/ Len(tier1) # 5 /\ "pattern" \in faults
    IN  IF raises
        THEN IF "pattern" \notin faults /\ Len(pattern_pred) = 5
             THEN pattern_pred ELSE default_yearly
        ELSE IF Len(tier3) = 5 /\ \A i \in DOMAIN tier3 : tier3[i] \in Numbers
             THEN tier3 ELSE default_yearly

YearlyStrategy(engine, patterns, faults) ==
    Let(_ml_based_prediction(engine.is_trained, engine.historical), LAMBDA ml_pred :
        YearlyTiers(IF engine.yearly_analysis.predictions # <<>>
                       /\ Len(engine.yearly_analysis.predictions[1].numbers) = 5
                    THEN engine.yearly_analysis.predictions[1].numbers ELSE <<>>,
                    ml_pred,
                    _boost_with_yearly_patterns(engine.yearly_analysis, ml_pred),
                    _pattern_based_prediction(patterns),
                    FrequencyFallback(engine.historical), faults))

\* the ensemble strategy before the request tail: [raised, hangs, results]
EnsembleResults(ml_pred, genetic, pattern_pred, intelligence_pred, faults) ==
    LET valid == /\ Len(intelligence_pred) = 5
                 /\ \A i \in DOMAIN intelligence_pred : intelligence_pred[i] \in Numbers
        ensemble_inputs == <<ml_pred, genetic.v, pattern_pred>>
                           \o (IF intelligence_pred # <<>> THEN <<intelligence_pred>> ELSE <<>>)
    IN  IF \/ faults \cap {"ml", "genetic", "pattern", "vote"} # {}
           \/ genetic.raised
        THEN [raised |-> TRUE, hangs |-> FALSE, early |-> FALSE, results |-> NoResults]
        ELSE [raised |-> FALSE, hangs |-> ~genetic.ok, early |-> FALSE,
              results |->
                 (IF valid THEN "intelligence" :> <<intelligence_pred>> ELSE NoResults)
                 @@ ("ml" :> <<ml_pred>>) @@ ("genetic" :> <<genetic.v>>)
                 @@ ("pattern" :> <<pattern_pred>>)
                 @@ ("ensemble" :> <<_ensemble_vote(ensemble_inputs)>>)]

EnsembleStrategy(engine, patterns, genetic, machine_draws, seed, faults, mode) ==
    Let(_ml_based_prediction(engine.is_trained, engine.historical), LAMBDA ml_pred :
    Let(_pattern_based_prediction(patterns), LAMBDA pattern_pred :
        EnsembleResults(ml_pred, genetic, pattern_pred,
            IF machine_draws # <<>> /\ Len(machine_draws) = Len(engine.historical)
            THEN EnsembleIntelligence(engine.historical, machine_draws, seed, mode,
                                      ml_pred, genetic.v, pattern_pred, engine.trend_data)
            ELSE <<>>,
            faults)))

Strategies == {"ml", "genetic", "pattern", "intelligence", "yearly", "ensemble"}

\* generate_predictions(strategy, n_predictions, machine_draws) on an engine:
\* the outcome of the request, with the state rng of the process-wide
\* generator afterwards (the request seeds it and the genetic optimizer
\* draws from it).  faults names the steps that raise in this request, mode
\* the behaviour of the intelligence sub-engine.
Produced(results) ==
    [raised |-> FALSE, hangs |-> FALSE, early |-> FALSE, results |-> results]

\* the branch of the strategy: [raised, hangs, early, results]
StrategyResults(engine, strategy, machine_draws, faults, mode, seed, patterns, genetic) ==
    CASE strategy = "ensemble" ->
             EnsembleStrategy(engine, patterns, genetic, machine_draws, seed, faults, mode)
      [] strategy = "ml" ->
             [Produced("ml" :> <<_ml_based_prediction(engine.is_trained, engine.historical)>>)
                 EXCEPT !.raised = "ml" \in faults]
      [] strategy = "genetic" ->
             [Produced("genetic" :> <<genetic.v>>)
                 EXCEPT !.raised = "genetic" \in faults \/ genetic.raised,
                        !.hangs = ~genetic.ok]
      [] strategy = "pattern" ->
             [Produced("pattern" :> <<_pattern_based_prediction(patterns)>>)
                 EXCEPT !.raised = "pattern" \in faults]
      [] strategy = "intelligence" ->
             IF machine_draws = <<>> \/ Len(machine_draws) # Len(engine.historical)
             THEN [Produced("intelligence" :> <<FrequencyFallback(engine.historical)>>)
                      EXCEPT !.early = TRUE]
             ELSE Produced("intelligence" :>
                      <<IntelligenceStrategy(engine.historical, machine_draws, seed, mode)>>)
      [] strategy = "yearly" ->
             Produced("yearly" :> <<YearlyStrategy(engine, patterns, faults)>>)
      [] OTHER -> Produced(NoResults)

RequestOutcome(run, trend_data, faults) ==
    IF "summary" \in faults \/ run.raised THEN Raised
    ELSE IF run.hangs THEN [Raised EXCEPT !.outcome = "hangs"]
    ELSE IF run.early THEN EarlyReturn(run.results)
    ELSE FinishRequest(run.results, trend_data)

RecentDraws(historical) ==
    SubSeq(historical, IF Len(historical) >= 50 THEN Len(historical) - 49 ELSE 1,
           Len(historical))

\* the genetic optimizer runs in the genetic and ensemble branches only
NoGenetic(s) == [v |-> <<>>, s |-> s, ok |-> TRUE, raised |-> FALSE]

SeededRequest(engine, strategy, machine_draws, faults, mode, seed, s, patterns) ==
    Let(IF strategy \in {"genetic", "ensemble"}
        THEN _genetic_optimization(patterns, engine.historical, s) ELSE NoGenetic(s),
        LAMBDA genetic :
        [RequestOutcome(StrategyResults(engine, strategy, machine_draws, faults, mode,
                                        seed, patterns, genetic),
                        engine.trend_data, faults)
            EXCEPT !.rng = IF /\ strategy \in {"genetic", "ensemble"}
                              /\ faults \cap {"summary", "ml", "genetic"} = {}
                              /\ ~genetic.raised
                           THEN genetic.s ELSE s])

generate_predictions(engine, strategy, machine_draws, faults, mode, rng_state) ==
    Let(DeriveSeed(engine.historical, strategy), LAMBDA seed :
        SeededRequest(engine, strategy, machine_draws, faults, mode, seed,
                      SeedRandom(rng_state, seed),
                      _analyze_patterns(RecentDraws(engine.historical))))

-----------------------------------------------------------------------------
(* AdvancedPatternDetector                                                 *)

\* np.log2(n) for n = 1..200, in units of 10^-5.  log2(count / total) is
\* log2(count) - log2(total); a period of 50 draws has 200 deltas.
Log2E5 ==
    <<
       0, 100000, 158496, 200000, 232193, 258496, 280735, 300000, 316993, 332193,
       345943, 358496, 370044, 380735, 390689, 400000, 408746, 416993, 424793, 432193,
       439232, 445943, 452356, 458496, 464386, 470044, 475489, 480735, 485798, 490689,
       495420, 500000, 504439, 508746, 512928, 516993, 520945, 524793, 528540, 532193,
       535755, 539232, 542626, 545943, 549185, 552356, 555459, 558496, 561471, 564386,
       567243, 570044, 572792, 575489, 578136, 580735, 583289, 585798, 588264, 590689,
       593074, 595420, 597728, 600000, 602237, 604439, 606609, 608746, 610852, 612928,
       614975, 616993, 618982, 620945, 622882, 624793, 626679, 628540, 630378, 632193,
       633985, 635755, 637504, 639232, 640939, 642626, 644294, 645943, 647573, 649185,
       650779, 652356, 653916, 655459, 656986, 658496, 659991, 661471, 662936, 664386,
       665821, 667243, 668650, 670044, 671425, 672792, 674147, 675489, 676818, 678136,
       679442, 680735, 682018, 683289, 684549, 685798, 687036, 688264, 689482, 690689,
       691886, 693074, 694251, 695420, 696578, 697728, 698868, 700000, 701123, 702237,
       703342, 704439, 705528, 706609, 707682, 708746, 709803, 710852, 711894, 712928,
       713955, 714975, 715987, 716993, 717991, 718982, 719967, 720945, 721917, 722882,
       723840, 724793, 725739, 726679, 727612, 728540, 729462, 730378, 731288, 732193,
       733092, 733985, 734873, 735755, 736632, 737504, 738370, 739232, 740088, 740939,
       741785, 742626, 743463, 744294, 745121, 745943, 746761, 747573, 748382, 749185,
       749985, 750779, 751570, 752356, 753138, 753916, 754689, 755459, 756224, 756986,
       757743, 758496, 759246, 759991, 760733, 761471, 762205, 762936, 763662, 764386 >>

\* the gaps of a draw: sorted_draw[i] - sorted_draw[i - 1]
Gaps(draw) ==
    LET sorted_draw == Sorted(draw)
    IN  List([i \in 1..(Len(draw) - 1) |-> sorted_draw[i + 1] - sorted_draw[i]])

\* delta_entropy, in units of 10^-5: -sum(count/total * log2(count/total))
\* over the Counter of all gaps, which is
\* (total * log2(total) - sum(count * log2(count))) / total
DeltaEntropy(deltas) ==
    LET total == Len(deltas)
        values == SetToSeq(Range(deltas))
    IN  IF total = 0 THEN 0
        ELSE (total * Log2E5[total]
              - SumSeq([i \in DOMAIN values |->
                          Count(deltas, values[i]) * Log2E5[Count(deltas, values[i])]]))
             \div total

\* _detect_number_clusters: the number of draws whose largest gap is below 25
_detect_number_clusters(draws) ==
    Cardinality({i \in DOMAIN draws :
                    /\ Len(draws[i]) >= 2
                    /\ \A g \in Range(Gaps(draws[i])) : g < 25})

\* _calculate_period_metrics: sum_mean as the total of the sums over the
\* number of draws, cluster_score as the number of clusters over the number
\* of draws.  sum_std and number_entropy are computed by the code and carry
\* no weight in the change score.
_calculate_period_metrics(draws) ==
    [sum_total |-> SumSeq([i \in DOMAIN draws |-> SumSeq(draws[i])]),
     n |-> Len(draws),
     delta_entropy |-> DeltaEntropy(Concat([i \in DOMAIN draws |-> Gaps(draws[i])])),
     clusters |-> _detect_number_clusters(draws)]

\* the change of an old value of zero into another value, divided by 1e-10
HugeChange == 1000000

\* abs(new - old) / (abs(old) + 1e-10) in thousandths, for values that are
\* not negative
RelChange(new, old) ==
    IF old = 0 THEN (IF new = 0 THEN 0 ELSE HugeChange)
    ELSE ((IF new > old THEN new - old ELSE old - new) * 1000) \div old

\* the weighted change score in ten-thousandths, from the two halves of an
\* even number of draws (means and cluster scores of both halves are over the
\* same number of draws)
TotalChange(metrics_old, metrics_new) ==
      3 * RelChange(metrics_new.sum_total, metrics_old.sum_total)
    + 4 * RelChange(metrics_new.delta_entropy, metrics_old.delta_entropy)
    + 3 * RelChange(metrics_new.clusters, metrics_old.clusters)

\* "detected": total_change > 0.25
Detected(total_change) == total_change > 2500

\* detect_regime_change: [detected, confidence], confidence in
\* ten-thousandths
detect_regime_change(recent_draws) ==
    IF Len(recent_draws) < 100 THEN [detected |-> FALSE, confidence |-> 0]
    ELSE Let(TotalChange(
                 _calculate_period_metrics(Take(recent_draws, Len(recent_draws) \div 2)),
                 _calculate_period_metrics(SubSeq(recent_draws, Len(recent_draws) \div 2 + 1,
                                                  Len(recent_draws)))),
             LAMBDA total_change :
                 [detected |-> Detected(total_change),
                  confidence |-> IF total_change > 10000 THEN 10000 ELSE total_change])

-----------------------------------------------------------------------------
(* EnhancedLottoOracle construction                                        *)

\* the steps of the construction that an injected fault can make raise
ConstructFaultNames == {"train", "trend", "yearly", "yearly_fit", "yearly_predict"}

NoEngine ==
    [built |-> FALSE, historical |-> <<>>, draw_dates |-> <<>>, lotto_types |-> <<>>,
     is_trained |-> FALSE, trend_data |-> EmptyTrend, yearly_analysis |-> EmptyYearly,
     regime_history |-> <<>>, prediction_history |-> 0]

\* __init__ and _initialize_system: [raised, engine, rng].  The classifier
\* training is not guarded: a fit that raises leaves no engine.  The trend
\* and yearly analyses are guarded and leave {} behind.  The yearly analysis
\* draws from the process-wide generator as it stands, reads the wall clock
\* and hashes the lotto type.
BuiltEngine(historical, draw_dates, lotto_types, trained, yearly, rng_state, cfaults) ==
    IF trained.raised
    THEN [raised |-> TRUE, engine |-> NoEngine, rng |-> rng_state]
    ELSE [raised |-> FALSE,
          engine |-> [built |-> TRUE, historical |-> historical,
                      draw_dates |-> draw_dates, lotto_types |-> lotto_types,
                      is_trained |-> trained.is_trained,
                      trend_data |-> IF "trend" \in cfaults THEN EmptyTrend
                                     ELSE get_trending_numbers(historical),
                      yearly_analysis |-> IF "yearly" \in cfaults THEN EmptyYearly
                                          ELSE yearly.analysis,
                      regime_history |->
                          <<detect_regime_change(
                                SubSeq(historical,
                                       IF Len(historical) > 100 THEN Len(historical) - 99 ELSE 1,
                                       Len(historical)))>>,
                      prediction_history |-> 0],
          rng |-> IF "yearly" \in cfaults THEN rng_state ELSE yearly.s]

_initialize_system(historical, draw_dates, lotto_types, now, seed, rng_state, cfaults) ==
    BuiltEngine(historical, draw_dates, lotto_types,
                train(FALSE, historical, "train" \in cfaults),
                analyze(historical, draw_dates, lotto_types, now, seed, rng_state,
                        "yearly_fit" \in cfaults, "yearly_predict" \in cfaults),
                rng_state, cfaults)

-----------------------------------------------------------------------------
(* Datasets and request inputs                                             *)

\* no draws at all
DataEmpty == [historical |-> <<>>, draw_dates |-> <<>>, lotto_types |-> <<>>]

\* three undated draws whose five most frequent numbers are all at most 45
DataSmall ==
    [historical |-> << <<5, 12, 23, 31, 44>>, <<5, 12, 23, 60, 88>>, <<5, 12, 30, 44, 71>> >>,
     draw_dates |-> <<>>, lotto_types |-> <<>>]

\* dated draws of two lotto types over two years, two draws in the first
\* year: the date predictor of the yearly analyzer has enough samples
DataYears ==
    [historical |-> << <<5, 12, 23, 31, 44>>, <<7, 12, 38, 52, 71>>,
                       <<5, 18, 38, 60, 88>>, <<12, 27, 44, 60, 79>> >>,
     draw_dates |-> << <<2024, 3, 2>>, <<2024, 9, 14>>, <<2025, 2, 8>>, <<2025, 11, 29>> >>,
     lotto_types |-> <<"Monday", "Fortune", "Monday", "Fortune">>]

\* lookback + 10 undated draws: the classifier ensemble has training samples
DataLong ==
    [historical |-> [i \in 1..(lookback + 10) |->
                        Sorted([k \in 1..5 |-> ((i * 7 + 19 * (k - 1)) % 90) + 1])],
     draw_dates |-> <<>>, lotto_types |-> <<>>]

Datasets == {DataEmpty, DataSmall, DataYears, DataLong}

\* machine_draws of a request: none, one machine draw per historical draw,
\* or one draw too many
MachineKinds == {"none", "aligned", "misaligned"}

MachineDraws(historical, kind) ==
    LET aligned == [i \in DOMAIN historical |->
                       [k \in 1..5 |-> 91 - historical[i][6 - k]]]
    IN  CASE kind = "none" -> <<>>
          [] kind = "aligned" -> aligned
          [] kind = "misaligned" -> Append(aligned, <<1, 2, 3, 4, 5>>)

Input(strategy, machine, faults, mode) ==
    [strategy |-> strategy, machine |-> machine, faults |-> faults, mode |-> mode]

\* requests without faults, the intelligence sub-engine working
PlainInputs ==
    {Input(st, "none", {}, "ok") : st \in {"ml", "genetic", "pattern", "yearly"}}
    \cup {Input(st, m, {}, "ok") : st \in {"intelligence", "ensemble"}, m \in MachineKinds}

\* requests in which steps raise or the intelligence sub-engine misbehaves
FaultyInputs ==
    {Input("ml", "none", f, "ok") : f \in {{"summary"}, {"ml"}}}
    \cup {Input("genetic", "none", {"genetic"}, "ok"), Input("pattern", "none", {"pattern"}, "ok"),
          Input("ensemble", "none", {"vote"}, "ok")}
    \cup {Input("yearly", "none", f, "ok") :
             f \in {{"ml"}, {"boost"}, {"pattern"}, {"ml", "pattern"}, {"boost", "pattern"}}}
    \cup {Input("intelligence", "aligned", {}, m) : m \in IntelModes \ {"ok"}}
    \cup {Input("ensemble", "aligned", {}, m) : m \in {"construct_raises", "no_tickets_short"}}

RequestInputs == PlainInputs \cup FaultyInputs

ConstructFaults == {{}} \cup {{f} : f \in ConstructFaultNames}

-----------------------------------------------------------------------------
(* State machine                                                           *)

EngineIds == {1, 2}

\* number of requests made on the engine of the fault model
MaxCalls == 1

\* number of requests made on the engine that is called repeatedly
MaxRetries == 3

\* the state of the process-wide generator at start, and after another user
\* of it has run
RngInit == 1

RngOther == 4242

Today == <<2025, 12, 31>>

Tomorrow == <<2026, 1, 1>>

NoCall ==
    [op |-> "none", engine |-> 0, data |-> DataEmpty, input |-> Input("", "none", {}, "ok"),
     outcome |-> "none", results |-> NoResults, rounds |-> NoResults,
     two_sure |-> <<>>, three_direct |-> <<>>, confidence |-> NoResults,
     has_confidence |-> FALSE, logged |-> FALSE]

CallRecord(op, e, data, input, out) ==
    [op |-> op, engine |-> e, data |-> data, input |-> input,
     outcome |-> out.outcome, results |-> out.results, rounds |-> out.rounds,
     two_sure |-> out.two_sure, three_direct |-> out.three_direct,
     confidence |-> out.confidence, has_confidence |-> out.has_confidence,
     logged |-> out.logged]

Init ==
    /\ engines = [e \in EngineIds |-> NoEngine]
    /\ rng = RngInit
    /\ hashseed = 0
    /\ clock = Today
    /\ calls = [e \in EngineIds |-> 0]
    /\ first = [e \in EngineIds |-> NoCall]
    /\ last = NoCall

\* EnhancedLottoOracle(historical_draws, draw_dates, lotto_types) for slot e
Built(e, data, cfaults, init) ==
    /\ engines' = [engines EXCEPT ![e] = init.engine]
    /\ rng' = init.rng
    /\ last' = CallRecord("construct", e, data, Input("", "none", cfaults, "ok"),
                          [Raised EXCEPT !.outcome = IF init.raised THEN "raised"
                                                     ELSE "returned"])
    /\ UNCHANGED <<hashseed, clock, calls, first>>

Construct(e, data, cfaults) ==
    /\ ~engines[e].built
    /\ Built(e, data, cfaults,
             _initialize_system(data.historical, data.draw_dates, data.lotto_types,
                                clock, hashseed, rng, cfaults))

Served(e, out, rec) ==
    /\ engines' = [engines EXCEPT ![e].prediction_history =
                      @ + (IF out.logged THEN 1 ELSE 0)]
    /\ rng' = out.rng
    /\ calls' = [calls EXCEPT ![e] = @ + 1]
    /\ first' = IF first[e].op = "none" THEN [first EXCEPT ![e] = rec] ELSE first
    /\ last' = rec
    /\ UNCHANGED <<hashseed, clock>>

Answered(e, input, out) ==
    Served(e, out, CallRecord("generate", e,
                      [historical |-> engines[e].historical,
                       draw_dates |-> engines[e].draw_dates,
                       lotto_types |-> engines[e].lotto_types], input, out))

\* engines[e].generate_predictions(strategy, 3, machine_draws)
Request(e, input) ==
    /\ engines[e].built
    /\ Answered(e, input,
                generate_predictions(engines[e], input.strategy,
                    MachineDraws(engines[e].historical, input.machine),
                    input.faults, input.mode, rng))

\* the fault model: one engine, any dataset, faults in construction and in
\* requests
ConstructEngine ==
    \E data \in Datasets, cfaults \in ConstructFaults : Construct(1, data, cfaults)

GeneratePredictions ==
    \E input \in RequestInputs : calls[1] < MaxCalls /\ Request(1, input)

Next == ConstructEngine \/ GeneratePredictions

Spec == Init /\ [][Next]_vars

\* repeated requests on one engine, nothing failing: every strategy, the
\* ensemble with and without machine draws
RetryDatasets == {DataSmall, DataLong}

RetryInputs ==
    {Input(st, "none", {}, "ok") : st \in {"ml", "genetic", "pattern", "yearly", "ensemble"}}
    \cup {Input(st, "aligned", {}, "ok") : st \in {"intelligence", "ensemble"}}

ConstructForRetry == \E data \in RetryDatasets : Construct(1, data, {})

Retry == \E input \in RetryInputs : calls[1] < MaxRetries /\ Request(1, input)

NextRetry == ConstructForRetry \/ Retry

SpecRetry == Init /\ [][NextRetry]_vars

\* the same request served twice, each time by a freshly constructed engine
\* (the service builds an engine per request), while the process-wide
\* generator is used by others, the date changes and the process restarts
\* with another hash seed
ConstructPlain == \E data \in Datasets : Construct(1, data, {})

Serve == \E input \in PlainInputs : calls[1] = 0 /\ Request(1, input)

ConstructReplica ==
    /\ engines[1].built
    /\ Construct(2, [historical |-> engines[1].historical,
                     draw_dates |-> engines[1].draw_dates,
                     lotto_types |-> engines[1].lotto_types], {})

ServeReplica ==
    /\ first[1].op = "generate"
    /\ calls[2] = 0
    /\ Request(2, first[1].input)

OtherRandomUse ==
    /\ rng = RngInit
    /\ rng' = RngOther
    /\ UNCHANGED <<engines, hashseed, clock, calls, first, last>>

Tick ==
    /\ clock = Today
    /\ clock' = Tomorrow
    /\ UNCHANGED <<engines, rng, hashseed, calls, first, last>>

Restart ==
    /\ hashseed = 0
    /\ hashseed' = 1
    /\ UNCHANGED <<engines, rng, clock, calls, first, last>>

NextDet ==
    \/ ConstructPlain \/ ConstructReplica \/ Serve \/ ServeReplica
    \/ OtherRandomUse \/ Tick \/ Restart

SpecDet == Init /\ [][NextDet]_vars

\* detect_regime_change on 100 draws.  The first half alternates between a
\* base draw and the base draw with its last number raised by jitter; the
\* second half is the first half with every number raised by shift, and
\* then left as it is, or its last number set to 90, or made five
\* consecutive numbers.
RegimeBases == { <<10, 30, 50, 70, 86>>, <<1, 5, 9, 13, 17>>, <<3, 20, 41, 60, 80>> }

RegimeJitters == 0..2

RegimeShifts == 0..2

RegimeShapes == {"same", "wide", "tight"}

RegimeDraws(base, jitter, shift, shape) ==
    LET old(i) == [base EXCEPT ![5] = @ + (IF i % 2 = 0 THEN jitter ELSE 0)]
        moved(i) == [k \in 1..5 |-> old(i)[k] + shift]
        new(i) == CASE shape = "same" -> moved(i)
                    [] shape = "wide" -> [moved(i) EXCEPT ![5] = 90]
                    [] shape = "tight" -> [k \in 1..5 |-> moved(i)[1] + k - 1]
    IN  List([i \in 1..100 |-> IF i <= 50 THEN List(old(i)) ELSE List(new(i - 50))])

RegimeInputs ==
    {RegimeDraws(base, jitter, shift, shape) :
        base \in RegimeBases, jitter \in RegimeJitters,
        shift \in RegimeShifts, shape \in RegimeShapes}

InitRegime ==
    /\ engines = [e \in EngineIds |-> NoEngine]
    /\ rng = RngInit
    /\ hashseed = 0
    /\ clock = Today
    /\ calls = [e \in EngineIds |-> 0]
    /\ first = [e \in EngineIds |-> NoCall]
    /\ last \in {[op |-> "recent_draws", recent_draws |-> draws, regime |-> <<>>] :
                    draws \in RegimeInputs}

\* pattern_detector.detect_regime_change(recent_draws)
DetectRegimeChange ==
    /\ last.op = "recent_draws"
    /\ last' = [op |-> "detect_regime_change", recent_draws |-> last.recent_draws,
                regime |-> <<detect_regime_change(last.recent_draws)>>]
    /\ UNCHANGED <<engines, rng, hashseed, clock, calls, first>>

NextRegime == DetectRegimeChange

SpecRegime == InitRegime /\ [][NextRegime]_vars

\* fix_prediction round by round.  last holds the call's arguments, the
\* local `result`, the value it had when the current round began (before),
\* the number of rounds begun, whether the loop has ended (by break or by
\* exhausting its range) and whether the call has returned.
FixPredictions ==
    { <<12, 31, 50, 64, 77>>, <<2, 4, 6, 8, 10>>, <<30, 12, 44, 8, 20>>,
      <<1, 3, 5, 7, 9>>, <<89, 71, 85, 87, 73>>, <<50, 60, 70, 80, 90>>,
      <<86, 87, 88, 89, 90>>, <<5, 10, 15, 20, 25>>, <<41, 43, 46, 48, 50>>,
      <<40, 1, 30, 20, 8>>, <<90, 46, 89, 41, 88>>, <<3, 4, 5, 6, 7>>,
      <<4, 50, 1, 3, 2>>, <<88, 45, 90, 87, 89>>, <<1, 2, 3, 4, 61>>,
      <<29, 86, 87, 88, 89>> }

FixPools ==
    { List([i \in 1..90 |-> i]), List([i \in 1..90 |-> 91 - i]),
      <<7, 62, 14, 3, 28, 81, 66, 49>>, <<2, 4, 6, 8, 10, 12>>, <<>> }

FixStart(prediction, number_pool) ==
    [op |-> "fix_prediction", prediction |-> prediction, number_pool |-> number_pool,
     result |-> prediction, before |-> prediction, rounds |-> 0,
     ended |-> FALSE, returned |-> FALSE]

InitFix ==
    /\ engines = [e \in EngineIds |-> NoEngine]
    /\ rng = RngInit
    /\ hashseed = 0
    /\ clock = Today
    /\ calls = [e \in EngineIds |-> 0]
    /\ first = [e \in EngineIds |-> NoCall]
    /\ last \in {FixStart(prediction, number_pool) :
                    prediction \in FixPredictions, number_pool \in FixPools}

\* one pass through the body of `for _ in range(max_iterations)`: break on
\* a valid result, repair otherwise
FixIteration ==
    /\ last.op \in {"fix_prediction", "fix_round"}
    /\ ~last.ended
    /\ last.rounds < max_iterations
    /\ last' = [last EXCEPT
                  !.op = "fix_round",
                  !.before = last.result,
                  !.rounds = @ + 1,
                  !.ended = check_patterns(last.result) = {},
                  !.result = IF check_patterns(last.result) = {} THEN @
                             ELSE FixRound(@, last.number_pool)]
    /\ UNCHANGED <<engines, rng, hashseed, clock, calls, first>>

\* the range of the loop is exhausted
FixExhausted ==
    /\ last.op = "fix_round"
    /\ ~last.ended
    /\ last.rounds = max_iterations
    /\ last' = [last EXCEPT !.op = "fix_exhausted", !.ended = TRUE]
    /\ UNCHANGED <<engines, rng, hashseed, clock, calls, first>>

\* return sorted(result)
FixReturn ==
    /\ last.op \in {"fix_round", "fix_exhausted"}
    /\ last.ended
    /\ ~last.returned
    /\ last' = [last EXCEPT !.op = "fix_return", !.before = last.result,
                            !.result = Sorted(@), !.returned = TRUE]
    /\ UNCHANGED <<engines, rng, hashseed, clock, calls, first>>

NextFix == FixIteration \/ FixExhausted \/ FixReturn

SpecFix == InitFix /\ [][NextFix]_vars

\* the yearly branch of generate_predictions statement by statement.  What
\* each tier would return, and which of them raise, are the inputs; last
\* holds them with the local yearly_pred, the position in the branch (pc),
\* the tiers attempted so far, each with whether it left a 5-number
\* candidate, and the candidate stored under 'yearly' (result).
YearlyTierNames == <<"cached", "hybrid", "pattern", "frequency", "default">>

CachedChoices == { <<>>, <<5, 12, 23, 31, 60>> }

MlChoices == { <<>>, <<3, 4, 5, 61, 68>> }

BoostedChoices == { <<3, 5, 12, 61>>, <<3, 5, 12, 61, 68>> }

PatternChoices == { <<>>, <<5, 12, 23, 44, 71>> }

FrequencyChoices == { <<5, 12>>, <<5, 12, 23, 30, 44>> }

YearlyFaults == SUBSET {"ml", "boost", "pattern"}

\* a guard that would let a later tier run whatever the earlier ones left
AlwaysFallback(yearly_pred) == TRUE

\* if not yearly_pred or len(yearly_pred) != 5
NeedsFallback(yearly_pred) == Len(yearly_pred) # 5

Attempt(tier, yearly_pred) == [tier |-> tier, yielded |-> Len(yearly_pred) = 5]

YearlyStart(tier0, ml_pred, boosted, pattern_pred, frequency, faults) ==
    [op |-> "yearly", tier0 |-> tier0, ml_pred |-> ml_pred,
     boosted |-> [v |-> boosted, raised |-> FALSE], pattern_pred |-> pattern_pred,
     frequency |-> frequency, faults |-> faults,
     pc |-> "cached", yearly_pred |-> <<>>, attempted |-> <<>>, result |-> <<>>]

InitYearly ==
    /\ engines = [e \in EngineIds |-> NoEngine]
    /\ rng = RngInit
    /\ hashseed = 0
    /\ clock = Today
    /\ calls = [e \in EngineIds |-> 0]
    /\ first = [e \in EngineIds |-> NoCall]
    /\ last \in {YearlyStart(tier0, ml_pred, boosted, pattern_pred, frequency, faults) :
                    tier0 \in CachedChoices, ml_pred \in MlChoices,
                    boosted \in BoostedChoices, pattern_pred \in PatternChoices,
                    frequency \in FrequencyChoices, faults \in YearlyFaults}

\* the first prediction of the cached yearly analysis, when it has 5 numbers
YearlyCached ==
    /\ last.op = "yearly" /\ last.pc = "cached"
    /\ last' = [last EXCEPT !.pc = "hybrid", !.yearly_pred = last.tier0,
                            !.attempted = Append(@, Attempt("cached", last.tier0))]
    /\ UNCHANGED <<engines, rng, hashseed, clock, calls, first>>

\* Fallback 1: the ML prediction boosted with the yearly patterns
YearlyHybrid ==
    /\ last.op = "yearly" /\ last.pc = "hybrid"
    /\ last' =
         IF last.yearly_pred # <<>> THEN [last EXCEPT !.pc = "pattern"]
         ELSE IF \/ "ml" \in last.faults
                 \/ Len(last.ml_pred) = 5 /\ ("boost" \in last.faults \/ last.boosted.raised)
         THEN [last EXCEPT !.pc = "emergency",
                           !.attempted = Append(@, Attempt("hybrid", <<>>))]
         ELSE IF Len(last.ml_pred) = 5
         THEN [last EXCEPT !.pc = "pattern", !.yearly_pred = last.boosted.v,
                           !.attempted = Append(@, Attempt("hybrid", last.boosted.v))]
         ELSE [last EXCEPT !.pc = "pattern",
                           !.attempted = Append(@, Attempt("hybrid", <<>>))]
    /\ UNCHANGED <<engines, rng, hashseed, clock, calls, first>>

\* Fallback 2: the pattern-based prediction
YearlyPattern ==
    /\ last.op = "yearly" /\ last.pc = "pattern"
    /\ last' =
         IF ~NeedsFallback(last.yearly_pred) THEN [last EXCEPT !.pc = "frequency"]
         ELSE IF "pattern" \in last.faults
         THEN [last EXCEPT !.pc = "emergency",
                           !.attempted = Append(@, Attempt("pattern", <<>>))]
         ELSE [last EXCEPT !.pc = "frequency", !.yearly_pred = last.pattern_pred,
                           !.attempted = Append(@, Attempt("pattern", last.pattern_pred))]
    /\ UNCHANGED <<engines, rng, hashseed, clock, calls, first>>

\* Fallback 3: the five most frequent numbers
YearlyFrequency ==
    /\ last.op = "yearly" /\ last.pc = "frequency"
    /\ last' =
         IF ~NeedsFallback(last.yearly_pred) THEN [last EXCEPT !.pc = "validate"]
         ELSE [last EXCEPT !.pc = "validate", !.yearly_pred = last.frequency,
                           !.attempted = Append(@, Attempt("frequency", last.frequency))]
    /\ UNCHANGED <<engines, rng, hashseed, clock, calls, first>>

\* Final validation: the candidate, or the default list
YearlyValidate ==
    /\ last.op = "yearly" /\ last.pc = "validate"
    /\ last' =
         IF /\ Len(last.yearly_pred) = 5
            /\ \A i \in DOMAIN last.yearly_pred : last.yearly_pred[i] \in Numbers
         THEN [last EXCEPT !.pc = "done", !.result = last.yearly_pred]
         ELSE [last EXCEPT !.pc = "done", !.result = default_yearly,
                           !.attempted = Append(@, Attempt("default", default_yearly))]
    /\ UNCHANGED <<engines, rng, hashseed, clock, calls, first>>

\* the except branch: the pattern-based prediction, or the default list
YearlyEmergency ==
    /\ last.op = "yearly" /\ last.pc = "emergency"
    /\ last' =
         IF "pattern" \notin last.faults /\ Len(last.pattern_pred) = 5
         THEN [last EXCEPT !.pc = "done", !.result = last.pattern_pred,
                           !.attempted = Append(@, Attempt("pattern", last.pattern_pred))]
         ELSE [last EXCEPT !.pc = "done", !.result = default_yearly,
                           !.attempted = @ \o << Attempt("pattern", <<>>),
                                                  Attempt("default", default_yearly) >>]
    /\ UNCHANGED <<engines, rng, hashseed, clock, calls, first>>

NextYearly ==
    \/ YearlyCached \/ YearlyHybrid \/ YearlyPattern
    \/ YearlyFrequency \/ YearlyValidate \/ YearlyEmergency

SpecYearly == InitYearly /\ [][NextYearly]_vars

\* evolve_solution step by step: one pass through the body of the
\* `while True` of _generate_individual, one round of the evolution loop,
\* and the return.  last holds the arguments (with the running weights of
\* the distribution), the individuals _generate_individual has returned
\* (initial), the passes of its loop made for the current individual
\* (attempts, followed up to MaxAttempts), the population, the number of
\* rounds done and the result; rng is the state of the generator.
GeneticDistributions ==
    { List([i \in 1..90 |-> 1]),
      List([i \in 1..90 |-> IF i \in {1, 5, 12, 23, 31, 44} THEN 50 ELSE 2]) }

\* the sum ranges of the summary of valid draws, and the one of draws that
\* repeat a number ([1,1,1,1,1] has the sum 5)
SumRanges == { <<100, 300>>, <<180, 260>>, <<15, 440>> }

SumRangesRepeated == { <<5, 5>> }

GeneticConstraints(sum_range) ==
    [target_sum_range |-> sum_range, even_odd_target |-> {2, 3},
     high_low_target |-> {2, 3}]

GeneticStart(number_probs, sum_range) ==
    [op |-> "evolve_solution", number_probs |-> number_probs,
     cum |-> CumWeights(number_probs), constraints |-> GeneticConstraints(sum_range),
     initial |-> <<>>, attempts |-> 0, population |-> <<>>, generation |-> 0,
     best |-> <<>>]

InitGenetic ==
    /\ engines = [e \in EngineIds |-> NoEngine]
    /\ hashseed = 0
    /\ clock = Today
    /\ calls = [e \in EngineIds |-> 0]
    /\ first = [e \in EngineIds |-> NoCall]
    /\ \/ /\ rng \in {RngInit, RngOther}
          /\ last \in {GeneticStart(number_probs, sum_range) :
                          number_probs \in GeneticDistributions, sum_range \in SumRanges}
       \/ /\ rng = RngInit
          /\ last \in {GeneticStart(List([i \in 1..90 |-> 1]), sum_range) :
                          sum_range \in SumRangesRepeated}

\* one pass of the loop of _generate_individual: an individual is drawn and
\* returned when it satisfies the constraints
GenerateAttempt ==
    /\ last.op \in {"evolve_solution", "rejected", "generated"}
    /\ Len(last.initial) < pop_size
    /\ last.attempts < MaxAttempts
    /\ \E run \in {GenerateLoop(List([i \in 1..90 |-> i]), last.cum,
                                last.constraints, rng, 1)} :
          /\ rng' = run.s
          /\ last' = IF run.ok
                     THEN [last EXCEPT !.op = "generated", !.attempts = 0,
                                       !.initial = Append(@, run.v),
                                       !.population = Append(@, run.v)]
                     ELSE [last EXCEPT !.op = "rejected", !.attempts = @ + 1]
    /\ UNCHANGED <<engines, hashseed, clock, calls, first>>

\* one round of the evolution loop
EvolveRound ==
    /\ last.op \in {"generated", "evolved"}
    /\ Len(last.initial) = pop_size
    /\ last.generation < generations
    /\ \E run \in {Evolve(last.population, last.number_probs, last.constraints, rng, 1)} :
          /\ rng' = run.s
          /\ last' = [last EXCEPT !.op = "evolved", !.population = run.v,
                                  !.generation = @ + 1]
    /\ UNCHANGED <<engines, hashseed, clock, calls, first>>

\* return sorted(population[best_idx])
EvolveReturn ==
    /\ last.op \in {"generated", "evolved"}
    /\ Len(last.initial) = pop_size
    /\ last.generation = generations
    /\ last' = [last EXCEPT
                  !.op = "evolve_return",
                  !.best = Sorted(last.population[ArgMax(
                               [i \in DOMAIN last.population |->
                                   _fitness(last.population[i], last.number_probs,
                                            last.constraints)])])]
    /\ UNCHANGED <<engines, rng, hashseed, clock, calls, first>>

NextGenetic == GenerateAttempt \/ EvolveRound \/ EvolveReturn

SpecGenetic == InitGenetic /\ [][NextGenetic]_vars

\* _ensemble_vote on 3 or 4 candidates (ml, genetic, pattern and, when the
\* intelligence engine answered, intelligence)
VoteCandidates ==
    { <<5, 12, 23, 31, 60>>, <<3, 5, 12, 61, 68>>, <<5, 12, 23, 44, 71>>,
      <<7, 23, 44, 61, 90>> }

VoteInputs ==
    { <<a, b, c>> : a \in VoteCandidates, b \in VoteCandidates, c \in VoteCandidates }
    \cup { <<a, b, c, d>> : a \in VoteCandidates, b \in VoteCandidates,
                            c \in VoteCandidates, d \in VoteCandidates }

InitVote ==
    /\ engines = [e \in EngineIds |-> NoEngine]
    /\ rng = RngInit
    /\ hashseed = 0
    /\ clock = Today
    /\ calls = [e \in EngineIds |-> 0]
    /\ first = [e \in EngineIds |-> NoCall]
    /\ last \in {[op |-> "ensemble_inputs", predictions |-> predictions, voted |-> <<>>] :
                    predictions \in VoteInputs}

\* self._ensemble_vote(ensemble_inputs)
EnsembleVote ==
    /\ last.op = "ensemble_inputs"
    /\ last' = [last EXCEPT !.op = "_ensemble_vote",
                            !.voted = _ensemble_vote(last.predictions)]
    /\ UNCHANGED <<engines, rng, hashseed, clock, calls, first>>

NextVote == EnsembleVote

SpecVote == InitVote /\ [][NextVote]_vars

-----------------------------------------------------------------------------
(* ConfidenceScorer                                                        *)

\* ZoneAnalyzer.get_zone
get_zone(num) == (num - 1) \div 10

\* the largest r with r * r <= v
Isqrt(v) == CHOOSE r \in 0..4000 : r * r <= v /\ (r + 1) * (r + 1) > v

\* GapAnalyzer.analyze_gaps: common_gaps as a list of <<gap, count>> and
\* ideal_gap_range = (max(1, int(avg - std)), int(avg + std)); for no draws
\* the analysis is empty and validate_gaps takes its defaults.  With n gaps
\* of sum S, avg = S / n and std = sqrt(n * sum(g * g) - S * S) / n.
analyze_gaps(draws) ==
    IF draws = <<>> THEN [common_gaps |-> <<>>, ideal_gap_range |-> <<5, 25>>]
    ELSE Let(Concat([d \in DOMAIN draws |-> Gaps(draws[d])]), LAMBDA all_gaps :
         LET n == Len(all_gaps)
             S == SumSeq(all_gaps)
             V == n * SumSeq([i \in DOMAIN all_gaps |-> all_gaps[i] * all_gaps[i]]) - S * S
             root == Isqrt(V)
             up == IF root * root = V THEN root ELSE root + 1
             low == (S - up) \div n
             common == MostCommon(all_gaps, 10)
         IN  [common_gaps |-> List([i \in DOMAIN common |->
                                      <<common[i], Count(all_gaps, common[i])>>]),
              ideal_gap_range |-> <<IF low > 1 THEN low ELSE 1, (S + root) \div n>>])

\* max(common_gaps.values()), 1 when there are none
MaxGapCount(gap_analysis) ==
    IF gap_analysis.common_gaps = <<>> THEN 1 ELSE gap_analysis.common_gaps[1][2]

\* GapAnalyzer.validate_gaps, in units of 1 / (100 * MaxGapCount)
validate_gaps(prediction, gap_analysis) ==
    LET gaps == Gaps(prediction)
        M == MaxGapCount(gap_analysis)
        ideal_range == gap_analysis.ideal_gap_range
        common == gap_analysis.common_gaps
        bonus(gap) == IF \E i \in DOMAIN common : common[i][1] = gap
                      THEN common[CHOOSE i \in DOMAIN common : common[i][1] = gap][2]
                      ELSE 0
        gaps_in_range == Cardinality({i \in 1..4 : ideal_range[1] <= gaps[i]
                                                   /\ gaps[i] <= ideal_range[2]})
        consecutive == Cardinality({i \in 1..4 : gaps[i] = 1})
        large_gaps == Cardinality({i \in 1..4 : gaps[i] > 30})
        score == 15 * M * gaps_in_range + 10 * SumSeq([i \in 1..4 |-> bonus(gaps[i])])
                 - 10 * M * consecutive - 10 * M * large_gaps
    IN  IF score < 0 THEN 0 ELSE IF score > 100 * M THEN 100 * M ELSE score

\* PositionAnalyzer.analyze_positions: position_favorites
analyze_positions(draws) ==
    [pos \in 1..5 |-> MostCommon([d \in DOMAIN draws |-> Sorted(draws[d])[pos]], 15)]

\* PositionAnalyzer.validate_positions, in hundredths
validate_positions(prediction, position_favorites) ==
    LET sorted_pred == Sorted(prediction)
        points(pos) ==
            LET favorites == position_favorites[pos]
                num == sorted_pred[pos]
            IN  IF num \in Range(Take(favorites, 5)) THEN 15
                ELSE IF num \in Range(Take(favorites, 10)) THEN 10
                ELSE IF num \in Range(favorites) THEN 5 ELSE 0
        score == SumSeq([pos \in 1..5 |-> points(pos)])
    IN  IF score > 100 THEN 100 ELSE score

\* factors['historical_frequency'] in tenths: min(appearances / 10, 0.2) for
\* every number over draws[-50:], at most 1.0
historical_frequency(prediction, draws) ==
    LET recent == SubSeq(draws, IF Len(draws) > 50 THEN Len(draws) - 49 ELSE 1, Len(draws))
        appearances(num) == Cardinality({d \in DOMAIN recent : num \in Range(recent[d])})
        freq_score == SumSeq([i \in DOMAIN prediction |->
                                IF appearances(prediction[i]) < 2
                                THEN appearances(prediction[i]) ELSE 2])
    IN  IF freq_score > 10 THEN 10 ELSE freq_score

\* the level the thresholds 0.75, 0.55, 0.35 assign to num / den
LevelOf(num, den) ==
    IF 4 * num >= 3 * den THEN "high"
    ELSE IF 20 * num >= 11 * den THEN "medium"
    ELSE IF 20 * num >= 7 * den THEN "low"
    ELSE "very_low"

\* round(num / unit): to the nearest integer.  The sum is a binary float,
\* which at a decimal half lies just above or just below it: half_up tells
\* on which side.
Round(num, unit, half_up) ==
    LET whole == num \div unit
        rest  == num % unit
    IN  IF 2 * rest > unit \/ (2 * rest = unit /\ half_up) THEN whole + 1 ELSE whole

\* ConfidenceScorer.calculate_confidence(prediction, draws,
\* strategy_agreement) for a prediction of 5 numbers; strategy_agreement is
\* <<p, q>> for p / q.  The factors are pairs <<numerator, denominator>>,
\* the weighted sum is fraction[1] / fraction[2] with the denominator
\* 2000 * MaxGapCount * q, the level is taken from the weighted sum, and
\* 'confidence' is round(sum, 3), in thousandths.
calculate_confidence(prediction, draws, strategy_agreement, half_up) ==
    Let(analyze_gaps(draws), LAMBDA gap_analysis :
    LET M == MaxGapCount(gap_analysis)
        p == strategy_agreement[1]
        q == strategy_agreement[2]
        zones == Cardinality({get_zone(prediction[i]) : i \in DOMAIN prediction})
        gap_score == validate_gaps(prediction, gap_analysis)
        violations == Cardinality(check_patterns(prediction))
        position_score == validate_positions(prediction, analyze_positions(draws))
        freq == historical_frequency(prediction, draws)
        num == q * (M * (60 * zones + 4 * (100 - 15 * violations)
                           + 3 * position_score + 20 * freq)
                    + 3 * gap_score)
               + 500 * p * M
        den == 2000 * M * q
    IN  [fraction |-> <<num, den>>,
         confidence |-> Round(num, 2 * M * q, half_up),
         level |-> LevelOf(num, den),
         factors |-> [zone_diversity |-> <<zones, 5>>,
                      gap_pattern |-> <<gap_score, 100 * M>>,
                      pattern_validity |-> <<100 - 15 * violations, 100>>,
                      position_alignment |-> <<position_score, 100>>,
                      strategy_agreement |-> strategy_agreement,
                      historical_frequency |-> <<freq, 10>>]])

\* calculate_confidence as a function of its three arguments
ConfidencePredictions ==
    { <<5, 12, 23, 31, 60>>, <<13, 24, 39, 58, 79>>, <<1, 2, 3, 4, 5>>,
      <<10, 10, 10, 10, 10>>, <<3, 27, 44, 61, 88>>, <<7, 18, 29, 40, 51>> }

ConfidenceWindows ==
    { <<>>,
      << <<5, 12, 23, 31, 60>>, <<5, 16, 27, 38, 49>>, <<13, 24, 39, 58, 79>>,
         <<7, 18, 29, 40, 51>> >>,
      << <<3, 14, 25, 36, 47>>, <<7, 18, 29, 40, 53>>, <<13, 24, 39, 58, 79>>,
         <<5, 12, 23, 31, 60>>, <<1, 12, 23, 34, 88>>, <<13, 27, 44, 61, 90>>,
         <<7, 18, 30, 41, 52>> >> }

\* agreement values p / q: the twentieths, and two values between them
AgreementValues == { <<p, 20>> : p \in 0..20 } \cup { <<439, 1000>>, <<999, 1000>> }

InitConfidence ==
    /\ engines = [e \in EngineIds |-> NoEngine]
    /\ rng = RngInit
    /\ hashseed = 0
    /\ clock = Today
    /\ calls = [e \in EngineIds |-> 0]
    /\ first = [e \in EngineIds |-> NoCall]
    /\ last \in {[op |-> "confidence_inputs", prediction |-> prediction, draws |-> draws,
                  strategy_agreement |-> strategy_agreement, conf |-> <<>>] :
                    prediction \in ConfidencePredictions, draws \in ConfidenceWindows,
                    strategy_agreement \in AgreementValues}

\* self.confidence_scorer.calculate_confidence(pred, self.historical,
\* strategy_agreement)
CalculateConfidence ==
    /\ last.op = "confidence_inputs"
    /\ \E half_up \in BOOLEAN :
          last' = [last EXCEPT !.op = "calculate_confidence",
                               !.conf = calculate_confidence(last.prediction, last.draws,
                                            last.strategy_agreement, half_up)]
    /\ UNCHANGED <<engines, rng, hashseed, clock, calls, first>>

NextConfidence == CalculateConfidence

SpecConfidence == InitConfidence /\ [][NextConfidence]_vars

-----------------------------------------------------------------------------
(* The /predict boundary (src/python-service/app.py): the module globals   *)
(* oracle_instance, historical_draws_cache and oracle_initializing, and    *)
(* the request threads of the server, which interleave between any two     *)
(* statements.  A dataset stands for the validated draws of a request, an  *)
(* oracle for the dataset it was constructed from.                         *)

Threads == {1, 2}

RequestDatasets == {"X", "Y"}

NoOracle == "None"

\* requests a thread serves one after the other
MaxRequests == 2

\* max_wait of initialize_oracle, in sleeps of one second
max_wait == 60

BoundaryStart ==
    [op |-> "boundary",
     oracle_instance |-> NoOracle,
     historical_draws_cache |-> NoOracle,
     oracle_initializing |-> FALSE,
     pc |-> [t \in Threads |-> "idle"],
     draws |-> [t \in Threads |-> NoOracle],
     waited |-> [t \in Threads |-> 0],
     served |-> [t \in Threads |-> NoOracle],
     answered |-> [t \in Threads |-> 0],
     requests |-> [t \in Threads |-> 0]]

InitBoundary ==
    /\ engines = [e \in EngineIds |-> NoEngine]
    /\ rng = RngInit
    /\ hashseed = 0
    /\ clock = Today
    /\ calls = [e \in EngineIds |-> 0]
    /\ first = [e \in EngineIds |-> NoCall]
    /\ last = BoundaryStart

At(t, label) == last.op = "boundary" /\ last.pc[t] = label

BoundaryStep(changed) ==
    /\ last' = changed
    /\ UNCHANGED <<engines, rng, hashseed, clock, calls, first>>

\* predict(): a request arrives and its draws pass the validation
ReceiveRequest(t) ==
    /\ \/ At(t, "idle")
       \/ At(t, "done")
    /\ last.requests[t] < MaxRequests
    /\ \E d \in RequestDatasets :
          BoundaryStep([last EXCEPT !.pc[t] = "compare", !.draws[t] = d,
                                    !.served[t] = NoOracle, !.answered[t] = 0,
                                    !.waited[t] = 0, !.requests[t] = @ + 1])

\* if historical_draws_cache != draws_tuple or oracle_instance is None
CompareCache(t) ==
    /\ At(t, "compare")
    /\ BoundaryStep([last EXCEPT !.pc[t] =
            IF last.historical_draws_cache # last.draws[t] \/ last.oracle_instance = NoOracle
            THEN "store" ELSE "double_check"])

\* historical_draws_cache = draws_tuple
StoreCache(t) ==
    /\ At(t, "store")
    /\ BoundaryStep([last EXCEPT !.pc[t] = "guard", !.historical_draws_cache = last.draws[t]])

\* initialize_oracle: if oracle_initializing
CheckGuard(t) ==
    /\ At(t, "guard")
    /\ BoundaryStep([last EXCEPT !.pc[t] = IF last.oracle_initializing THEN "wait" ELSE "enter"])

\* while oracle_initializing and waited < max_wait: time.sleep(1); waited += 1
Wait(t) ==
    /\ At(t, "wait")
    /\ BoundaryStep(IF last.oracle_initializing /\ last.waited[t] < max_wait
                    THEN [last EXCEPT !.waited[t] = @ + 1]
                    ELSE [last EXCEPT !.pc[t] = "waited"])

\* if oracle_instance is not None: return oracle_instance
AfterWait(t) ==
    /\ At(t, "waited")
    /\ BoundaryStep([last EXCEPT !.pc[t] =
            IF last.oracle_instance # NoOracle THEN "double_check" ELSE "enter"])

\* try: oracle_initializing = True
EnterInitialization(t) ==
    /\ At(t, "enter")
    /\ BoundaryStep([last EXCEPT !.pc[t] = "construct", !.oracle_initializing = TRUE])

\* oracle_instance = EnhancedLottoOracle(draws, draw_dates, lotto_types)
ConstructOracle(t) ==
    /\ At(t, "construct")
    /\ BoundaryStep([last EXCEPT !.pc[t] = "finally_return",
                                 !.oracle_instance = last.draws[t]])

\* the constructor raises; except: oracle_instance = None
ConstructOracleRaises(t) ==
    /\ At(t, "construct")
    /\ BoundaryStep([last EXCEPT !.pc[t] = "finally_raise", !.oracle_instance = NoOracle])

\* finally: oracle_initializing = False; the oracle is returned, or the
\* exception reaches predict(), which answers 500
Finally(t) ==
    /\ \/ At(t, "finally_return")
       \/ At(t, "finally_raise")
    /\ BoundaryStep([last EXCEPT !.oracle_initializing = FALSE,
            !.pc[t] = IF last.pc[t] = "finally_return" THEN "double_check" ELSE "done",
            !.answered[t] = IF last.pc[t] = "finally_return" THEN 0 ELSE 500])

\* if oracle_instance is None: answer 500
DoubleCheck(t) ==
    /\ At(t, "double_check")
    /\ BoundaryStep(IF last.oracle_instance = NoOracle
                    THEN [last EXCEPT !.pc[t] = "done", !.answered[t] = 500]
                    ELSE [last EXCEPT !.pc[t] = "generate"])

\* predictions = oracle_instance.generate_predictions(...): on the oracle
\* the global names at this moment; on None the call raises and predict()
\* answers 500
Generate(t) ==
    /\ At(t, "generate")
    /\ BoundaryStep(IF last.oracle_instance = NoOracle
                    THEN [last EXCEPT !.pc[t] = "done", !.answered[t] = 500]
                    ELSE [last EXCEPT !.pc[t] = "done", !.answered[t] = 200,
                                      !.served[t] = last.oracle_instance])

ThreadStep(t) ==
    \/ ReceiveRequest(t)
    \/ CompareCache(t)
    \/ StoreCache(t)
    \/ CheckGuard(t)
    \/ Wait(t)
    \/ AfterWait(t)
    \/ EnterInitialization(t)
    \/ ConstructOracle(t)
    \/ ConstructOracleRaises(t)
    \/ Finally(t)
    \/ DoubleCheck(t)
    \/ Generate(t)

NextBoundary == \E t \in Threads : ThreadStep(t)

SpecBoundary == InitBoundary /\ [][NextBoundary]_vars

-----------------------------------------------------------------------------
(* predict(): validation of the winning draws, normalisation and filtering *)
(* of the machine draws (src/python-service/app.py)                        *)

ZeroDraw == <<0, 0, 0, 0, 0>>

\* the winning draws that pass lines 138-148: a list of 5 integers in 1..90
IsValidWinning(win_draw) ==
    /\ Len(win_draw) = 5
    /\ \A i \in 1..5 : win_draw[i] \in 1..90

\* lines 175-195: one machine draw brought to exactly 5 numbers
NormalizeMachine(mach_draw) ==
    IF mach_draw = <<>> THEN ZeroDraw
    ELSE IF Len(mach_draw) > 5 THEN SubSeq(mach_draw, 1, 5)
    ELSE IF Len(mach_draw) < 5
         THEN mach_draw \o [i \in 1..(5 - Len(mach_draw)) |-> 0]
    ELSE IF \E i \in 1..5 : mach_draw[i] \notin 0..90 THEN ZeroDraw
    ELSE mach_draw

\* line 217: a machine draw the intelligence engine can use
IsValidMachine(mach_draw) ==
    /\ Len(mach_draw) = 5
    /\ \A i \in 1..5 : mach_draw[i] \in 1..90

\* lines 157-171: machine_draws padded with zeros or truncated to the
\* number of valid winning draws
PadOrTruncate(machine_draws, n) ==
    IF machine_draws = <<>> THEN [i \in 1..n |-> ZeroDraw]
    ELSE IF Len(machine_draws) < n
         THEN machine_draws \o [i \in 1..(n - Len(machine_draws)) |-> ZeroDraw]
    ELSE SubSeq(machine_draws, 1, n)

\* predict() up to the call of generate_predictions: the status of the
\* answer when the request is refused (400), else the draws the oracle is
\* constructed from and the machine draws handed to generate_predictions
\* (<<>> for None)
predict(request) ==
    LET valid_draws == FilterSeq(request.draws,
                                 {d \in Range(request.draws) : IsValidWinning(d)})
        padded == PadOrTruncate(request.machine_draws, Len(valid_draws))
        normalized == List([i \in DOMAIN padded |-> NormalizeMachine(padded[i])])
        filters == request.strategy \in {"intelligence", "ensemble"}
        kept == SetToSeq({i \in DOMAIN valid_draws : IsValidMachine(normalized[i])})
        filtered_draws == List([p \in DOMAIN kept |-> valid_draws[kept[p]]])
        filtered_machines == List([p \in DOMAIN kept |-> normalized[kept[p]]])
        draws == IF filters /\ kept # <<>> THEN filtered_draws ELSE valid_draws
        machine_draws == IF filters
                         THEN (IF kept # <<>> THEN filtered_machines ELSE <<>>)
                         ELSE normalized
        min_required == IF filters THEN 50 ELSE 60
        refused == [status |-> 400, draws |-> <<>>, machine_draws |-> <<>>]
    IN  IF request.draws = <<>> THEN refused
        ELSE IF Len(valid_draws) < 50 THEN refused
        ELSE IF request.strategy = "intelligence" /\ Len(kept) < 50 THEN refused
        ELSE IF Len(draws) < min_required THEN refused
        ELSE [status |-> 200, draws |-> draws, machine_draws |-> machine_draws]

\* request bodies: 62 winning draws, each different from all others, with
\* their machine draws; some winning draws malformed, the machine draws
\* absent, fewer, more, or with entries that are zero, short, long or out
\* of range
SubmittedCount == 62

WinningAt(k) == <<k, k + 1, k + 2, k + 3, k + 4>>

MachineAt(k) == <<k + 20, k + 21, k + 22, k + 23, k + 24>>

Malformed == { <<>>, <<7, 8, 9, 10>>, <<3, 4, 5, 6, 91>> }

WinningLists ==
    { [k \in 1..SubmittedCount |-> WinningAt(k)] }
    \cup { [k \in 1..SubmittedCount |-> IF k = at THEN bad ELSE WinningAt(k)] :
             at \in {1, 30, SubmittedCount}, bad \in Malformed }

MachineLists ==
    { <<>>,
      [k \in 1..SubmittedCount |-> MachineAt(k)],
      [k \in 1..(SubmittedCount - 2) |-> MachineAt(k)],
      [k \in 1..(SubmittedCount + 1) |-> MachineAt(k)],
      [k \in 1..SubmittedCount |-> IF k = 5 THEN ZeroDraw ELSE MachineAt(k)],
      [k \in 1..SubmittedCount |-> IF k = 5 THEN <<11, 12, 13>> ELSE MachineAt(k)],
      [k \in 1..SubmittedCount |-> IF k = 5 THEN <<11, 12, 13, 14, 15, 16>> ELSE MachineAt(k)],
      [k \in 1..SubmittedCount |-> IF k = 5 THEN <<11, 12, 13, 14, 95>> ELSE MachineAt(k)],
      [k \in 1..SubmittedCount |-> IF k <= 20 THEN ZeroDraw ELSE MachineAt(k)] }

Requests ==
    { [draws |-> draws, machine_draws |-> machine_draws, strategy |-> strategy] :
        draws \in WinningLists, machine_draws \in MachineLists,
        strategy \in {"ml", "ensemble", "intelligence"} }

InitAlign ==
    /\ engines = [e \in EngineIds |-> NoEngine]
    /\ rng = RngInit
    /\ hashseed = 0
    /\ clock = Today
    /\ calls = [e \in EngineIds |-> 0]
    /\ first = [e \in EngineIds |-> NoCall]
    /\ last \in {[op |-> "request", request |-> request, status |-> 0,
                  draws |-> <<>>, machine_draws |-> <<>>] : request \in Requests}

\* POST /predict on a fresh server
Predict ==
    /\ last.op = "request"
    /\ \E answer \in {predict(last.request)} :
          last' = [last EXCEPT !.op = "predict", !.status = answer.status,
                               !.draws = answer.draws,
                               !.machine_draws = answer.machine_draws]
    /\ UNCHANGED <<engines, rng, hashseed, clock, calls, first>>

NextAlign == Predict

SpecAlign == InitAlign /\ [][NextAlign]_vars

-----------------------------------------------------------------------------
(* scrape_all_pages (src/scraper.py).  The site and the database are the   *)
(* environment: a fetch fails, yields a page without rows, or yields rows  *)
(* of which insert_draw reports some as new.                               *)

max_empty_pages == 3

\* pages fetched in one run of the model
MaxFetched == 8

\* max_pages is <<>> for None and <<n>> for n.
\* `if max_pages and ...`: None and 0 are false
LimitReached(run) ==
    /\ run.max_pages # <<>>
    /\ run.max_pages[1] # 0
    /\ run.page > run.start_page + run.max_pages[1] - 1

InitScraper ==
    /\ engines = [e \in EngineIds |-> NoEngine]
    /\ rng = RngInit
    /\ hashseed = 0
    /\ clock = Today
    /\ calls = [e \in EngineIds |-> 0]
    /\ first = [e \in EngineIds |-> NoCall]
    /\ last \in {[op |-> "scrape_all_pages", start_page |-> start_page,
                  max_pages |-> max_pages, page |-> start_page, fetched |-> <<>>,
                  consecutive_empty_pages |-> 0, total_inserted |-> 0,
                  total_skipped |-> 0, new_insertions |-> 0, status |-> "running",
                  closed |-> FALSE, returned |-> 0] :
                    start_page \in {1, 3}, max_pages \in {<<>>, <<0>>, <<1>>, <<2>>, <<4>>}}

Running == last.op = "scrape_all_pages" /\ last.status = "running"

\* finally: conn.close(); return total_inserted
Exit(run, status) ==
    [run EXCEPT !.status = status, !.closed = TRUE, !.returned = run.total_inserted]

ScraperStep(changed) ==
    /\ last' = changed
    /\ UNCHANGED <<engines, rng, hashseed, clock, calls, first>>

\* if max_pages and page > start_page + max_pages - 1: break
StopAtLimit ==
    /\ Running
    /\ LimitReached(last)
    /\ ScraperStep(Exit(last, "limit"))

\* a pass of the loop in which fetch_page returns None or the page has no
\* rows: the counter goes up, and the loop ends at max_empty_pages
EmptyPass(run) ==
    LET counted == [run EXCEPT !.fetched = Append(@, run.page),
                               !.consecutive_empty_pages = @ + 1]
    IN  IF counted.consecutive_empty_pages >= max_empty_pages
        THEN Exit(counted, "empty")
        ELSE [counted EXCEPT !.page = @ + 1]

\* if not soup: ... / if not rows: ...
FetchEmpty ==
    /\ Running
    /\ ~LimitReached(last)
    /\ Len(last.fetched) < MaxFetched
    /\ ScraperStep(EmptyPass(last))

\* a page with rows: insert_draw reports inserted of them as new and
\* skipped of them as duplicates
FetchRows ==
    /\ Running
    /\ ~LimitReached(last)
    /\ Len(last.fetched) < MaxFetched
    /\ \E inserted \in 0..2, skipped \in 0..1 :
          ScraperStep([last EXCEPT !.fetched = Append(@, last.page),
                                   !.consecutive_empty_pages = 0,
                                   !.total_inserted = @ + inserted,
                                   !.total_skipped = @ + skipped,
                                   !.new_insertions = @ + inserted,
                                   !.page = @ + 1])

\* except KeyboardInterrupt, except Exception: the loop is left
Interrupted ==
    /\ Running
    /\ ScraperStep(Exit(last, "interrupted"))

NextScraper == StopAtLimit \/ FetchEmpty \/ FetchRows \/ Interrupted

SpecScraper == InitScraper /\ [][NextScraper]_vars

-----------------------------------------------------------------------------
(* Skip counts: _analyze_patterns against MLPredictor._calculate_skips     *)

\* MLPredictor._calculate_skips: draws since num last appeared, scanning from
\* the newest draw; len(draws) when num is in none of them
_calculate_skips(num, draws) ==
    LET hits == {i \in DOMAIN draws : num \in Range(draws[i])}
    IN  IF hits = {} THEN Len(draws)
        ELSE Len(draws) - (CHOOSE i \in hits : \A j \in hits : j <= i)

\* draws the short windows are built from
SkipDraws == {<<1, 2, 3, 4, 5>>, <<5, 6, 7, 8, 9>>, <<1, 30, 45, 60, 90>>, <<86, 87, 88, 89, 90>>}

\* 18 draws in which every number 1..90 appears once
CoverWindow == [k \in 1..18 |-> [j \in 1..5 |-> 5 * (k - 1) + j]]

\* windows of 1..3 draws, and windows in which no number is missing
SkipWindows ==
    {<<a>> : a \in SkipDraws}
        \cup {<<a, b>> : a \in SkipDraws, b \in SkipDraws}
        \cup {<<a, b, c>> : a \in SkipDraws, b \in SkipDraws, c \in SkipDraws}
        \cup {List(CoverWindow)}
        \cup {List(CoverWindow \o <<a>>) : a \in SkipDraws}
        \cup {List(<<a>> \o CoverWindow) : a \in SkipDraws}

InitSkips ==
    /\ engines = [e \in EngineIds |-> NoEngine]
    /\ rng = RngInit
    /\ hashseed = 0
    /\ clock = Today
    /\ calls = [e \in EngineIds |-> 0]
    /\ first = [e \in EngineIds |-> NoCall]
    /\ last \in {[op |-> "skips", draws |-> w, analyzed |-> FALSE,
                  calculated |-> FALSE, patterns |-> EmptyPatterns,
                  ml_skips |-> List([num \in 1..90 |-> 0])] : w \in SkipWindows}

\* patterns = self._analyze_patterns(recent)
AnalyzePatterns ==
    /\ last.op = "skips"
    /\ ~last.analyzed
    /\ last' = [last EXCEPT !.analyzed = TRUE,
                            !.patterns = _analyze_patterns(last.draws)]
    /\ UNCHANGED <<engines, rng, hashseed, clock, calls, first>>

\* self._calculate_skips(num, draws) for num in range(1, 91)
CalculateSkips ==
    /\ last.op = "skips"
    /\ ~last.calculated
    /\ last' = [last EXCEPT !.calculated = TRUE,
                            !.ml_skips = List([num \in 1..90 |->
                                                 _calculate_skips(num, last.draws)])]
    /\ UNCHANGED <<engines, rng, hashseed, clock, calls, first>>

NextSkips == AnalyzePatterns \/ CalculateSkips

SpecSkips == InitSkips /\ [][NextSkips]_vars

-----------------------------------------------------------------------------
(* Properties                                                              *)

Generated == last.op = "generate"

Strategy == last.input.strategy

SameResult(a, b) ==
    /\ a.outcome = b.outcome
    /\ a.results = b.results
    /\ a.two_sure = b.two_sure
    /\ a.three_direct = b.three_direct
    /\ a.confidence = b.confidence

\* C1: two freshly constructed engines over the same dataset return equal
\* results for the same request, whatever the process-wide generator, the
\* date and the hash seed were when each was constructed
C1_DeterminismAcrossEngines ==
    (Generated /\ last.engine = 2) => SameResult(last, first[1])

\* C2: on one engine, a request returns the same result as the first request
\* with the same strategy and machine draws, whatever was requested between
C2_IdempotentRetry ==
    (Generated /\ last.input = first[1].input) => SameResult(last, first[1])

C2_Witness ==
    /\ Generated /\ calls[1] > 2
    /\ last.input = first[1].input
    /\ Strategy = "ensemble" /\ last.outcome = "returned"
    /\ "genetic" \in DOMAIN last.results

\* C3: on an engine built from a non-empty history, every candidate stored
\* under a strategy key of a returned result is 5 pairwise distinct integers
\* in 1..90
C3_CandidateValidity ==
    (Generated /\ last.outcome = "returned" /\ last.data.historical # <<>>)
        => \A k \in DOMAIN last.results :
              \A j \in DOMAIN last.results[k] : IsCandidate(last.results[k][j])

C3_Witness ==
    /\ Generated /\ last.outcome = "returned" /\ last.data.historical # <<>>
    /\ Strategy = "ensemble"
    /\ "intelligence" \in DOMAIN last.results
    /\ \E k \in DOMAIN last.rounds : last.rounds[k][1] > 0

\* C4: every 5-number candidate of a returned result violates none of the
\* ten anti-pattern rules or went through all max_iterations repair rounds
C4_AntiPatternPassCoversOutput ==
    (Generated /\ last.outcome = "returned")
        => \A k \in DOMAIN last.results :
              \A j \in DOMAIN last.results[k] :
                 Len(last.results[k][j]) = 5
                    => \/ check_patterns(last.results[k][j]) = {}
                       \/ last.rounds[k][j] = max_iterations

\* C5: a request returns a result, and the key of the requested strategy
\* holds a 5-number list, whichever step raises
C5_NoSubsystemFailureAborts ==
    Generated
        => /\ last.outcome = "returned"
           /\ Strategy \in DOMAIN last.results
           /\ \A j \in DOMAIN last.results[Strategy] :
                 Len(last.results[Strategy][j]) = 5

\* C6: a construction in which the classifier training or the training of
\* the date predictor raises or reports failure returns an engine whose
\* predictor is untrained
C6_ConstructionNeverThrows ==
    last.op = "construct"
        => /\ last.outcome = "returned"
           /\ engines[last.engine].built
           /\ ("train" \in last.input.faults \/ ~HasTrainingSamples(last.data.historical))
                 => ~engines[last.engine].is_trained
           /\ last.input.faults \cap {"yearly", "yearly_fit"} # {}
                 => ~engines[last.engine].yearly_analysis.ml_trained

NoMachineData == Generated /\ Strategy = "intelligence" /\ last.input.machine = "none"

\* C7 as stated: the intelligence strategy without machine draws raises
C7_HardFailure == NoMachineData => last.outcome = "raised"

\* C7, amended: the intelligence strategy without machine draws returns a
\* result whose only key, intelligence, holds the frequency-based fallback
C7_FrequencyFallback ==
    NoMachineData
        => /\ last.outcome = "returned"
           /\ last.results = ("intelligence" :> <<FrequencyFallback(last.data.historical)>>)

C7_Witness == NoMachineData /\ last.data.historical # <<>> /\ last.outcome = "returned"

EmptyDataset == last.op = "construct" /\ last.data.historical = <<>>

\* C8 as stated: the construction from an empty dataset raises
C8_EmptyDatasetFails == EmptyDataset => last.outcome = "raised"

\* C8, amended: the construction from an empty dataset returns an engine,
\* with an untrained classifier and an untrained date predictor
C8_EmptyDatasetUntrained ==
    EmptyDataset
        => /\ last.outcome = "returned"
           /\ engines[last.engine].built
           /\ ~engines[last.engine].is_trained
           /\ ~engines[last.engine].yearly_analysis.ml_trained

C8_Witness == EmptyDataset /\ engines[1].built /\ engines[1].historical = <<>>

\* C9: with machine draws of another length than the history the request
\* returns; the intelligence key holds the frequency-based fallback, and the
\* ensemble result is the one of the request without machine draws, with no
\* intelligence key
C9_SilentDegradation ==
    (Generated /\ last.input.machine = "misaligned" /\ last.input.faults = {})
        => /\ last.outcome = "returned"
           /\ Strategy = "intelligence"
                 => last.results
                      = ("intelligence" :> <<FrequencyFallback(last.data.historical)>>)
           /\ Strategy = "ensemble"
                 => /\ "intelligence" \notin DOMAIN last.results
                    /\ last.results
                         = generate_predictions(engines[last.engine], "ensemble", <<>>,
                                                {}, "ok", rng).results

\* C10: the yearly strategy returns a result whose yearly key holds exactly
\* one candidate of exactly 5 numbers in 1..90, with the cached analysis
\* present or empty and with any of its tiers raising
C10_YearlyAlwaysAnswers ==
    (Generated /\ Strategy = "yearly")
        => /\ last.outcome = "returned"
           /\ "yearly" \in DOMAIN last.results
           /\ Len(last.results["yearly"]) = 1
           /\ Len(last.results["yearly"][1]) = 5
           /\ \A i \in 1..5 : last.results["yearly"][1][i] \in Numbers

C10_Witness ==
    /\ Generated /\ Strategy = "yearly" /\ last.outcome = "returned"
    /\ engines[1].yearly_analysis.empty
    /\ {"boost", "pattern"} \subseteq last.input.faults

\* the ranking behind the consensus numbers of the last result
LastRanking == ConsensusRanking(last.results, engines[last.engine].trend_data)

\* the scores down to the first one left out of three_direct fall strictly
StrictOrdering(number_scores) ==
    /\ Len(number_scores) > 3
    /\ \A i \in 1..3 : number_scores[i][2] > number_scores[i + 1][2]

\* C11: in every result that holds both, the two_sure numbers are among the
\* three_direct numbers: they are the first two and the first three numbers
\* of one ranking by score (with a strict score ordering or without)
C11_ConsensusNesting ==
    (Generated /\ last.two_sure # <<>> /\ last.three_direct # <<>>)
        => /\ Range(last.two_sure) \subseteq Range(last.three_direct)
           /\ Len(last.two_sure) = 2 /\ Len(last.three_direct) = 3
           /\ \A i \in 1..3 : \E j \in 1..3 : LastRanking[i][1] = last.three_direct[j]

C11_Witness ==
    /\ Generated /\ last.two_sure # <<>> /\ last.three_direct # <<>>
    /\ StrictOrdering(LastRanking)

ShortHistory(historical) == Len(historical) < lookback + 10

\* C12: a predictor trained on fewer than 60 draws: train returns False, the
\* flag stays False and predict_proba gives each of the 90 numbers the same
\* weight, 1 of 90; the flag is True only after a train on 60 draws or more
\* whose fits completed
C12_ClassifierFallback ==
    /\ \A e \in EngineIds :
          LET engine == engines[e]
              probs  == predict_proba(engine.is_trained, engine.historical)
          IN  /\ (engine.built /\ ShortHistory(engine.historical))
                    => /\ ~engine.is_trained
                       /\ Len(probs) = 90 /\ SumSeq(probs) = 90
                       /\ \A num \in 1..90 : probs[num] = 1
              /\ engine.is_trained => ~ShortHistory(engine.historical)
    /\ last.op = "construct"
          => LET trained == train(FALSE, last.data.historical, "train" \in last.input.faults)
             IN  /\ ShortHistory(last.data.historical)
                       => ~trained.returned /\ ~trained.raised /\ ~trained.is_trained
                 /\ engines[last.engine].is_trained
                       <=> (trained.returned /\ "train" \notin last.input.faults)

C12_Witness ==
    /\ Generated /\ Strategy = "ml" /\ last.outcome = "returned"
    /\ last.data.historical # <<>> /\ ShortHistory(last.data.historical)
    /\ ~engines[last.engine].is_trained

\* the sums of the second half are shifted by more than 3 standard
\* deviations of the sums of the first half: the means differ by more than
\* 3 * std, i.e. (S_new - S_old)^2 > 9 * (n * sum(s^2) - S_old^2) for halves
\* of n draws with totals S_old and S_new
SumShifted(recent_draws) ==
    LET n == Len(recent_draws) \div 2
        sums == [i \in DOMAIN recent_draws |-> SumSeq(recent_draws[i])]
        S_old == SumRange(sums, 1, n)
        S_new == SumRange(sums, n + 1, 2 * n)
        squares == SumSeq([i \in 1..n |-> sums[i] * sums[i]])
    IN  (S_new - S_old) * (S_new - S_old) > 9 * (n * squares - S_old * S_old)

\* C13: for 100 draws whose second half has its sums shifted by more than 3
\* standard deviations of the first half's sums, detect_regime_change
\* returns detected = true
C13_SumShiftDetected ==
    (last.op = "detect_regime_change" /\ SumShifted(last.recent_draws))
        => last.regime[1].detected

\* C14: a request (a step that counts a call) leaves every field of every
\* engine as it was
C14_NoCrossRequestState ==
    [][(calls' # calls) => engines' = engines]_vars

\* C15: every returned result carries the key '_confidence', and the map
\* under it holds, for each strategy key with a 5-number candidate, the
\* report of a candidate of the returned result
C15_ConfidenceCoversOutput ==
    (Generated /\ last.outcome = "returned")
        => /\ last.has_confidence
           /\ \A k \in DOMAIN last.results :
                 (\E j \in DOMAIN last.results[k] : Len(last.results[k][j]) = 5)
                    => /\ k \in DOMAIN last.confidence
                       /\ \E j \in DOMAIN last.results[k] :
                             /\ Len(last.results[k][j]) = 5
                             /\ last.confidence[k]
                                  = StrategyAgreement(last.results, last.results[k][j])

\* the rules fix_prediction repairs, in the order it tests them
RepairableRules ==
    <<"all_evens", "all_odds", "all_high", "all_low", "sum_too_low", "sum_too_high">>

FirstViolated(result) ==
    LET violated == {i \in DOMAIN RepairableRules :
                        RepairableRules[i] \in check_patterns(result)}
    IN  IF violated = {} THEN "none"
        ELSE RepairableRules[CHOOSE i \in violated : \A j \in violated : i <= j]

\* the numbers a rule makes offending, and the numbers that repair it
Offending(rule) ==
    CASE rule = "all_evens" -> {n \in Numbers : n % 2 = 0}
      [] rule = "all_odds"  -> {n \in Numbers : n % 2 = 1}
      [] rule = "all_high"  -> {n \in Numbers : n > 45}
      [] rule = "all_low"   -> {n \in Numbers : n <= 45}
      [] rule \in {"sum_too_low", "sum_too_high"} -> Numbers
      [] rule = "none" -> {}

Complementary(rule) ==
    CASE rule = "all_evens" -> {n \in Numbers : n % 2 = 1}
      [] rule = "all_odds"  -> {n \in Numbers : n % 2 = 0}
      [] rule = "all_high"  -> {n \in Numbers : n <= 45}
      [] rule = "all_low"   -> {n \in Numbers : n > 45}
      [] rule = "sum_too_low"  -> {n \in Numbers : n > 60}
      [] rule = "sum_too_high" -> {n \in Numbers : n < 30}
      [] rule = "none" -> {}

Removed(before, result) == Range(before) \ Range(result)

Added(before, result) == Range(result) \ Range(before)

\* C16: fix_prediction begins at most max_iterations rounds; a round that
\* finds the result valid ends the loop and leaves it alone; any other round
\* exchanges at most one number, an offending number of the first violated
\* repairable rule for a number with the complementary property; once the
\* loop has ended there is no further round and the numbers stay
C16_RepairProtocol ==
    [][ /\ last'.op = "fix_round"
          => /\ last'.rounds = last.rounds + 1
             /\ last'.rounds <= max_iterations
             /\ check_patterns(last.result) = {}
                  => last'.ended /\ last'.result = last.result
             /\ check_patterns(last.result) # {}
                  => /\ ~last'.ended
                     /\ Cardinality(Removed(last.result, last'.result)) <= 1
                     /\ Cardinality(Added(last.result, last'.result))
                          = Cardinality(Removed(last.result, last'.result))
                     /\ Removed(last.result, last'.result)
                          \subseteq Offending(FirstViolated(last.result))
                     /\ Added(last.result, last'.result)
                          \subseteq Complementary(FirstViolated(last.result))
        /\ last.ended
          => /\ last'.rounds = last.rounds
             /\ Range(last'.result) = Range(last.result) ]_vars

\* a call on a candidate violating several repairable rules has returned
\* after repairing rounds and a round that found the result valid
C16_Witness ==
    /\ last.op = "fix_return"
    /\ last.rounds \in 3..(max_iterations - 1)
    /\ Cardinality(check_patterns(last.prediction) \cap Range(RepairableRules)) >= 2
    /\ check_patterns(last.result) = {}

\* the eligible replacements of a rule: the pool numbers, in pool order,
\* that are not in the candidate and have the complementary property
Eligible(rule, result, number_pool) ==
    FilterSeq(number_pool, Complementary(rule) \ Range(result))

\* a round of fix_prediction has exchanged a number
Repaired == last.op = "fix_round" /\ Added(last.before, last.result) # {}

FirstOffending(rule, result) == FilterSeq(result, Offending(rule))[1]

\* C17 as stated: in every repairing round the replacement is the element
\* at index len // 2 of the eligible replacements of the repaired rule, and
\* for the parity and high/low rules the number replaced is the first
\* offending number
C17_MedianReplacement ==
    Repaired
        => LET rule == FirstViolated(last.before)
               eligible == Eligible(rule, last.before, last.number_pool)
           IN  /\ Added(last.before, last.result)
                    = {eligible[(Len(eligible) \div 2) + 1]}
               /\ rule \notin {"sum_too_low", "sum_too_high"}
                    => Removed(last.before, last.result)
                         = {FirstOffending(rule, last.before)}

\* C17: in every repairing round of a parity or high/low rule the first
\* offending number is replaced by the element at index len // 2 of the
\* eligible replacements; for sum_too_low the lowest number is replaced by
\* the first eligible replacement, for sum_too_high the highest number by
\* the last one
C17_ReplacementChoice ==
    Repaired
        => LET rule == FirstViolated(last.before)
               eligible == Eligible(rule, last.before, last.number_pool)
               removed == Removed(last.before, last.result)
               added == Added(last.before, last.result)
           IN  CASE rule = "sum_too_low" ->
                      /\ removed = {Sorted(last.before)[1]}
                      /\ added = {eligible[1]}
                 [] rule = "sum_too_high" ->
                      /\ removed = {Sorted(last.before)[Len(last.before)]}
                      /\ added = {eligible[Len(eligible)]}
                 [] OTHER ->
                      /\ rule # "none"
                      /\ removed = {FirstOffending(rule, last.before)}
                      /\ added = {eligible[(Len(eligible) \div 2) + 1]}

\* a sum rule has been repaired from at least three eligible replacements
C17_Witness ==
    /\ Repaired
    /\ FirstViolated(last.before) \in {"sum_too_low", "sum_too_high"}
    /\ Len(Eligible(FirstViolated(last.before), last.before, last.number_pool)) >= 3

TierRank(tier) == IndexOf(YearlyTierNames, tier)

SomeIndividualFits(constraints) ==
    \E total \in 15..440 :
        /\ constraints.target_sum_range[1] <= total
        /\ total <= constraints.target_sum_range[2]

\* C19: evolve_solution terminates.  The loop of _generate_individual ends
\* only by drawing an individual that satisfies the constraints, so whenever
\* it has rejected one, an individual that satisfies them exists; the
\* evolution is entered with pop_size individuals and the call returns
\* after exactly `generations` rounds
C19_GeneticTerminates ==
    /\ last.op = "rejected" => SomeIndividualFits(last.constraints)
    /\ last.op = "evolved" => Len(last.initial) = pop_size
    /\ last.op = "evolve_return" => last.generation = generations

\* C20: every individual returned by _generate_individual has 5 pairwise
\* distinct numbers of 1..90 and a sum within target_sum_range
C20_InitialPopulationConstraints ==
    last.op \in {"rejected", "generated", "evolved", "evolve_return"}
        => \A k \in DOMAIN last.initial :
              /\ IsCandidate(last.initial[k])
              /\ last.constraints.target_sum_range[1] <= SumSeq(last.initial[k])
              /\ SumSeq(last.initial[k]) <= last.constraints.target_sum_range[2]

\* the initial population is complete under a sum range that not every
\* individual meets
C20_Witness ==
    /\ last.op = "generated"
    /\ Len(last.initial) = pop_size
    /\ last.constraints.target_sum_range = <<180, 260>>

\* the strategies (positions) of the voted candidates that name a number
Naming(predictions, num) == {i \in DOMAIN predictions : num \in Range(predictions[i])}

\* the claimed weighted vote of a number in tenths: for every strategy that
\* names it, the weight of the strategy (1.0, 1.2, 1.1, 1.3 by position) and
\* 0.5 per naming strategy
ClaimedVote(predictions, num) ==
    LET naming == Naming(predictions, num)
        weight == <<10, 12, 11, 13>>
        total[S \in SUBSET naming] ==
            IF S = {} THEN 0
            ELSE LET i == CHOOSE i \in S : TRUE
                 IN  weight[i] + 5 * Cardinality(naming) + total[S \ {i}]
    IN  total[naming]

\* strategy_count x 10 + weighted_vote, in tenths
ClaimedScore(predictions, num) ==
    100 * Cardinality(Naming(predictions, num)) + ClaimedVote(predictions, num)

\* C21: the vote returns 5 distinct numbers in ascending order; every
\* selected number scores at least as high as every named number left out,
\* and is named by at least as many strategies
C21_EnsembleVoteRanking ==
    last.op = "_ensemble_vote"
        => /\ Len(last.voted) = 5
           /\ \A i \in 1..4 : last.voted[i] < last.voted[i + 1]
           /\ \A x \in Range(last.voted) :
                 \A y \in Range(Concat(last.predictions)) \ Range(last.voted) :
                    /\ ClaimedScore(last.predictions, x) >= ClaimedScore(last.predictions, y)
                    /\ Cardinality(Naming(last.predictions, x))
                         >= Cardinality(Naming(last.predictions, y))

\* four candidates were voted on, a number named by two of them was left out
\* and a number named by all four was selected
C21_Witness ==
    /\ last.op = "_ensemble_vote"
    /\ Len(last.predictions) = 4
    /\ \E y \in Range(Concat(last.predictions)) \ Range(last.voted) :
          Cardinality(Naming(last.predictions, y)) = 2
    /\ \E x \in Range(last.voted) : Cardinality(Naming(last.predictions, x)) = 4

\* the candidates a request returned, as <<strategy, position>> pairs
Candidates(results) ==
    UNION { {<<k, j>> : j \in {j \in DOMAIN results[k] : Len(results[k][j]) > 0}} :
              k \in DOMAIN results }

\* the position in its list of the candidate a strategy is scored on
ScoredAt(results, k) ==
    CHOOSE j \in DOMAIN results[k] :
        /\ Len(results[k][j]) = 5
        /\ \A i \in DOMAIN results[k] : Len(results[k][i]) = 5 => i <= j

\* the claimed agreement of the candidate at kj as <<numerator, denominator>>:
\* the mean over the other candidates of the overlap over 5
MeanOverlapWithOthers(results, kj) ==
    LET others == Candidates(results) \ {kj}
        total[S \in SUBSET others] ==
            IF S = {} THEN 0
            ELSE LET d == CHOOSE d \in S : TRUE
                 IN  Cardinality(Range(results[kj[1]][kj[2]])
                                   \cap Range(results[d[1]][d[2]]))
                       + total[S \ {d}]
    IN  << total[others], 5 * Cardinality(others) >>

\* C22: the agreement value of a scored candidate is the mean, over the
\* other produced candidates, of the overlap over 5 (the candidate itself is
\* not counted), and lies in [0,1]
C22_AgreementExcludesSelf ==
    (last.outcome = "returned" /\ last.has_confidence)
        => \A k \in DOMAIN last.confidence :
              LET kj == <<k, ScoredAt(last.results, k)>>
                  claimed == MeanOverlapWithOthers(last.results, kj)
                  passed == last.confidence[k]
              IN  /\ 0 <= passed[1] /\ passed[1] <= passed[2]
                  /\ Candidates(last.results) # {kj}
                        => passed[1] * claimed[2] = claimed[1] * passed[2]

\* C23: the confidence and every factor lie in [0,1], and the reported level
\* is the one the thresholds 0.75, 0.55 and 0.35 assign to the reported
\* confidence
C23_ConfidenceRangeAndLevel ==
    last.op = "calculate_confidence"
        => /\ 0 <= last.conf.confidence /\ last.conf.confidence <= 1000
           /\ \A f \in DOMAIN last.conf.factors :
                 /\ 0 <= last.conf.factors[f][1]
                 /\ last.conf.factors[f][1] <= last.conf.factors[f][2]
           /\ last.conf.level = LevelOf(last.conf.confidence, 1000)

\* the threads inside the construction of initialize_oracle: the flag is
\* set, the finally clause has not run
Initializing == {t \in Threads : last.pc[t] \in {"construct", "finally_return", "finally_raise"}}

\* C24: a request is served by an oracle constructed from its own draws, and
\* outside an initialization historical_draws_cache describes the dataset
\* of the current oracle_instance
C24_ServedFromOwnDataset ==
    last.op = "boundary"
        => /\ \A t \in Threads : last.served[t] \in {NoOracle, last.draws[t]}
           /\ (\A t \in Threads : last.pc[t] \in {"idle", "done"})
                 => last.oracle_instance \in {NoOracle, last.historical_draws_cache}

\* C25: at most one thread is constructing an oracle inside
\* initialize_oracle, and oracle_initializing is True exactly while a
\* construction is in progress (hence False after every attempt)
C25_InitializationGuard ==
    last.op = "boundary"
        => /\ Cardinality(Initializing) <= 1
           /\ last.oracle_initializing <=> Initializing # {}

\* the machine draw the request submitted with a winning draw (the winning
\* draws of a request differ from each other): the entry of machine_draws
\* at the index of the winning draw, brought to 5 numbers; zeros where the
\* request has none
SubmittedWith(request, win_draw) ==
    LET at == IndexOf(request.draws, win_draw)
    IN  IF at \in DOMAIN request.machine_draws
        THEN NormalizeMachine(request.machine_draws[at]) ELSE ZeroDraw

\* C26: the machine draws handed to generate_predictions are none, or as
\* many as the draws handed to the engine, entry i being the machine draw
\* submitted at the original index of the winning draw at entry i
C26_MachineWinningAlignment ==
    (last.op = "predict" /\ last.status = 200 /\ last.machine_draws # <<>>)
        => /\ Len(last.machine_draws) = Len(last.draws)
           /\ \A i \in DOMAIN last.draws :
                 last.machine_draws[i] = SubmittedWith(last.request, last.draws[i])

\* C27: the pages are fetched in order from start_page; the run has ended
\* exactly when max_pages pages were fetched (max_pages given) or 3
\* consecutive pages failed or were empty, unless it was interrupted; at the
\* end the connection is closed and the number of new insertions returned
C27_ScraperStopRule ==
    last.op = "scrape_all_pages"
        => /\ \A i \in DOMAIN last.fetched : last.fetched[i] = last.start_page + i - 1
           /\ last.max_pages # <<>> => Len(last.fetched) <= last.max_pages[1]
           /\ last.consecutive_empty_pages <= max_empty_pages
           /\ last.status = "running"
                 => /\ last.consecutive_empty_pages < max_empty_pages
                    /\ ~last.closed
           /\ last.status = "limit" => Len(last.fetched) = last.max_pages[1]
           /\ last.status = "empty" => last.consecutive_empty_pages = max_empty_pages
           /\ last.status # "running"
                 => /\ last.closed
                    /\ last.returned = last.new_insertions

\* C28: fix_prediction leaves its argument as it was and returns 5 pairwise
\* distinct numbers of 1..90 in ascending order: the sorted argument when it
\* violates no rule
C28_RepairPreservesShape ==
    [][last.op \in {"fix_prediction", "fix_round", "fix_exhausted"}
          => /\ last'.prediction = last.prediction
             /\ last'.op = "fix_return"
                   => /\ Len(last'.result) = 5
                      /\ \A i \in 1..5 : last'.result[i] \in 1..90
                      /\ \A i \in 1..4 : last'.result[i] < last'.result[i + 1]
                      /\ check_patterns(last.prediction) = {}
                            => last'.result = Sorted(last.prediction)]_vars

\* a candidate that holds a number above 60 and sums to less than 100 was
\* repaired from a pool that lists this number, and returned
C28_Witness ==
    /\ last.op = "fix_return"
    /\ "sum_too_low" \in check_patterns(last.prediction)
    /\ \E n \in Range(last.prediction) : n > 60 /\ n \in Range(last.number_pool)
    /\ Range(last.result) # Range(last.prediction)

\* a sorted list of 5 pairwise distinct integers of 1..90
WellFormed(individual) ==
    /\ Len(individual) = 5
    /\ \A i \in 1..5 : individual[i] \in 1..90
    /\ \A i \in 1..4 : individual[i] < individual[i + 1]

\* generator states at which crossover and mutation are applied to the
\* individuals of a population
OperatorSeeds == {0, 7, 300, 16411, 21845, 43690, 50000, 65536}

\* random.choice(['swap', 'replace', 'shift']) at a generator state
MutationTypeAt(s) == <<"swap", "replace", "shift">>[RngBelow(RngNext(s), 3) + 1]

\* C29: once the population is initialised, and after every generation, it
\* holds pop_size individuals, each a sorted list of 5 distinct numbers of
\* 1..90; crossover and the mutations applied to such individuals yield
\* such individuals, and so is the individual returned
C29_PopulationInvariant ==
    last.op \in {"evolve_solution", "rejected", "generated", "evolved", "evolve_return"}
        => /\ Len(last.initial) = pop_size => Len(last.population) = pop_size
           /\ \A k \in DOMAIN last.population : WellFormed(last.population[k])
           /\ \A a \in Range(last.population), s \in OperatorSeeds :
                 /\ WellFormed(_mutate(a, last.number_probs, s).v)
                 /\ \A b \in Range(last.population) :
                       /\ WellFormed(_crossover(a, b, s).c1)
                       /\ WellFormed(_crossover(a, b, s).c2)
           /\ last.op = "evolve_return" => WellFormed(last.best)

\* a generation has replaced individuals of the initial population of 3,
\* two of which share a number, and the seeds reach all three mutations
C29_Witness ==
    /\ last.op = "evolve_return"
    /\ pop_size % 2 = 1
    /\ last.generation >= 1
    /\ last.population # last.initial
    /\ \E a, b \in Range(last.population) : a # b /\ Range(a) \cap Range(b) # {}
    /\ {MutationTypeAt(s) : s \in OperatorSeeds} = {"swap", "replace", "shift"}


\* C30: for every window and every number 1..90 the skip count of the
\* pattern summary equals _calculate_skips on the same window, numbers that
\* never appear included, and the cold numbers are the 15 numbers that have
\* gone longest without appearing
C30_SkipCountsAgree ==
    (last.op = "skips" /\ last.analyzed /\ last.calculated)
        => /\ \A num \in 1..90 : last.patterns.skips[num] = last.ml_skips[num]
           /\ Len(last.patterns.cold_numbers) = 15
           /\ \A x \in Range(last.patterns.cold_numbers) :
                 \A y \in (1..90) \ Range(last.patterns.cold_numbers) :
                    last.ml_skips[x] >= last.ml_skips[y]

\* the two counts agree for every number that appears in the window
C30_SeenNumbersAgree ==
    (last.op = "skips" /\ last.analyzed /\ last.calculated)
        => \A num \in 1..90 :
              (\E i \in DOMAIN last.draws : num \in Range(last.draws[i]))
                  => last.patterns.skips[num] = last.ml_skips[num]

\* a window in which no number is missing has been through both computations
C30_FullWindowAgrees ==
    (last.op = "skips" /\ last.analyzed /\ last.calculated
        /\ \A num \in 1..90 : \E i \in DOMAIN last.draws : num \in Range(last.draws[i]))
        => C30_SkipCountsAgree

=============================================================================
